---------------------------- MODULE Spec2Model ----------------------------
(***************************************************************************)
(* Villages events calendar sync.                                          *)
(*                                                                         *)
(* Spec: one cycle of lambda_handler, which fetches raw events, normalizes *)
(* them, and reconciles them with the DynamoDB table through               *)
(* DynamoDBManager.sync_events.  Here strings are modelled as integers:    *)
(* None is -1, the empty string is 0 (both falsy in Python), every         *)
(* positive number is a non-empty string.                                  *)
(*                                                                         *)
(* SpecProc: calls of EventProcessor (process_events on a list of raw      *)
(* records, generate_event_id on triples), on strings of characters.       *)
(*                                                                         *)
(* SpecFetch: one call of _fetch_calendar_html, the retry loop of the      *)
(* scraper.                                                                *)
(*                                                                         *)
(* SpecLoad: sync_events up to its plan with get_all_events in detail, on  *)
(* tables scanned in pages whose items may be malformed.                   *)
(***************************************************************************)
EXTENDS Integers, Sequences, FiniteSets, TLC

\* DynamoDBManager.BATCH_SIZE
BATCH_SIZE == 25

\* Bounds of the model.
\* Identities of the freely enumerated scenarios are 1..MaxId.
MaxId == 3
\* Longest freely enumerated fetched list.
MaxFresh == 3
\* The long lists have BATCH_SIZE + MaxOver records (30 for MaxOver = 5).
MaxOver == 5

None == -1
EmptyStr == 0

Min(a, b) == IF a < b THEN a ELSE b

\* The elements of a finite set of integers, ascending: the k-th is the
\* one with k - 1 smaller elements.
SortedSeq(S) ==
    [k \in 1..Cardinality(S) |->
        CHOOSE x \in S : Cardinality({y \in S : y < x}) = k - 1]

Range(s) == {s[k] : k \in 1..Len(s)}

(***************************************************************************)
(* processor/models.py: ProcessedEvent.  Variant 0 of identity id is the   *)
(* base record; variants 1..9 change exactly one comparable field, variant *)
(* 10 changes last_updated only.  Variants 11..13 give the optional fields *)
(* the falsy values process_events can leave in them: end_time None (no    *)
(* end, or one that does not parse), url None (no link) and url '' (a link *)
(* with an empty href).                                                    *)
(***************************************************************************)
Variants == 0..13

ProcessedEvent(id, v) ==
    [event_id     |-> id,
     title        |-> IF v = 1 THEN 100 + id ELSE id,
     description  |-> IF v = 2 THEN 2 ELSE 1,
     event_date   |-> IF v = 3 THEN 2 ELSE 1,
     start_time   |-> IF v = 4 THEN 2 ELSE 1,
     end_time     |-> CASE v = 5 -> 2 [] v = 11 -> None [] OTHER -> 1,
     location     |-> IF v = 6 THEN 2 ELSE 1,
     category     |-> IF v = 7 THEN 2 ELSE 1,
     url          |-> CASE v = 8 -> 2 [] v = 12 -> None [] v = 13 -> EmptyStr
                          [] OTHER -> 1,
     last_updated |-> IF v = 10 THEN 2 ELSE 1,
     ttl          |-> IF v = 9 THEN 2 ELSE 1]

\* dict.get(key): the value, or None when the key is absent.
Get(item, key) == IF key \in DOMAIN item THEN item[key] ELSE None

\* DynamoDBManager._processed_event_to_item: the optional attributes are
\* written only when truthy (neither None nor the empty string).
ProcessedEventToItem(event) ==
    LET item == [event_id     |-> event.event_id,
                 title        |-> event.title,
                 description  |-> event.description,
                 event_date   |-> event.event_date,
                 start_time   |-> event.start_time,
                 location     |-> event.location,
                 category     |-> event.category,
                 last_updated |-> event.last_updated,
                 ttl          |-> event.ttl]
        withEnd == IF event.end_time > 0
                   THEN item @@ [k \in {"end_time"} |-> event.end_time]
                   ELSE item
    IN  IF event.url > 0
        THEN withEnd @@ [k \in {"url"} |-> event.url]
        ELSE withEnd

\* DynamoDBManager._item_to_processed_event: the items of this model carry
\* every required attribute, so the conversion succeeds.
ItemToProcessedEvent(item) ==
    [event_id     |-> item["event_id"],
     title        |-> item["title"],
     description  |-> item["description"],
     event_date   |-> item["event_date"],
     start_time   |-> item["start_time"],
     end_time     |-> Get(item, "end_time"),
     location     |-> item["location"],
     category     |-> item["category"],
     url          |-> Get(item, "url"),
     last_updated |-> item["last_updated"],
     ttl          |-> item["ttl"]]

\* Mutation of EventsDiffer: last_updated is compared too.
EventsDifferWithLastUpdated(event1, event2) ==
    \/ event1.title /= event2.title
    \/ event1.description /= event2.description
    \/ event1.event_date /= event2.event_date
    \/ event1.start_time /= event2.start_time
    \/ event1.end_time /= event2.end_time
    \/ event1.location /= event2.location
    \/ event1.category /= event2.category
    \/ event1.url /= event2.url
    \/ event1.ttl /= event2.ttl
    \/ event1.last_updated /= event2.last_updated

\* DynamoDBManager._events_differ: every field but event_id and last_updated.
EventsDiffer(event1, event2) ==
    \/ event1.title /= event2.title
    \/ event1.description /= event2.description
    \/ event1.event_date /= event2.event_date
    \/ event1.start_time /= event2.start_time
    \/ event1.end_time /= event2.end_time
    \/ event1.location /= event2.location
    \/ event1.category /= event2.category
    \/ event1.url /= event2.url
    \/ event1.ttl /= event2.ttl

(***************************************************************************)
(* The reconciliation plan of sync_events, as pure functions.              *)
(***************************************************************************)
\* Mutation of NewEventsDict: every record of the list is kept.
NewEventsDictKeepsAll(new_events) ==
    new_events

\* {event.event_id: event for event in new_events}, as the sequence of its
\* values: a key keeps the place of its first occurrence and the value of
\* its last.
NewEventsDict(new_events) ==
    LET idx  == [k \in 1..Len(new_events) |-> k]
        keys == SelectSeq(idx, LAMBDA k :
                    \A j \in 1..(k - 1) :
                        new_events[j].event_id /= new_events[k].event_id)
        last(id) == CHOOSE k \in 1..Len(new_events) :
                        /\ new_events[k].event_id = id
                        /\ \A j \in (k + 1)..Len(new_events) :
                               new_events[j].event_id /= id
    IN  CHOOSE dict \in {[n \in 1..Len(ks) |->
                              new_events[last(new_events[ks[n]].event_id)]] :
                          ks \in {keys}} : TRUE

EventIds(events) == {events[k].event_id : k \in 1..Len(events)}

\* Mutation of EventsToAdd: the snapshot is not consulted.
EventsToAddAll(new_events_dict, existing) ==
    new_events_dict

\* events_to_add: in new, not in existing.
EventsToAdd(new_events_dict, existing) ==
    SelectSeq(new_events_dict, LAMBDA e : e.event_id \notin DOMAIN existing)

\* Mutation of EventsToUpdate: every fresh record of a stored identity.
EventsToUpdateAllExisting(new_events_dict, existing) ==
    SelectSeq(new_events_dict, LAMBDA e : e.event_id \in DOMAIN existing)

\* events_to_update: in both, and the content differs.
EventsToUpdate(new_events_dict, existing) ==
    SelectSeq(new_events_dict, LAMBDA e :
        /\ e.event_id \in DOMAIN existing
        /\ EventsDiffer(e, existing[e.event_id]))

\* Mutation of EventIdsToDelete: every stored identity that is not updated.
EventIdsToDeleteNotAdded(new_events_dict, existing) ==
    SelectSeq(SortedSeq(DOMAIN existing), LAMBDA id :
        id \notin EventIds(EventsToUpdate(new_events_dict, existing)))

\* event_ids_to_delete: in existing, not in new.  existing_events.keys()
\* follows the scan, modelled as ascending identity.
EventIdsToDelete(new_events_dict, existing) ==
    SelectSeq(SortedSeq(DOMAIN existing), LAMBDA id :
        id \notin EventIds(new_events_dict))

\* get_all_events on a scan that succeeds: event_id -> ProcessedEvent.
GetAllEvents(table) ==
    [id \in DOMAIN table |-> ItemToProcessedEvent(table[id])]

\* processor/models.py: SyncResult.
SyncResult(a, u, d, errs) ==
    [added |-> a, updated |-> u, deleted |-> d, errors |-> errs]

(***************************************************************************)
(* Inputs.  A raw event is modelled by its outcome under normalization:    *)
(* rejected, or the ProcessedEvent it normalizes to.                       *)
(***************************************************************************)
Raw(e) == [valid |-> TRUE, event |-> e]
Rejected == [valid |-> FALSE, event |-> ProcessedEvent(0, 0)]

\* Mutation of ProcessEvents: the rejected records are kept too.
ProcessEventsKeepsRejected(raw) ==
    [k \in 1..Len(raw) |-> raw[k].event]

\* EventProcessor.process_events: the valid records, in input order.
ProcessEvents(raw) ==
    LET kept == SelectSeq(raw, LAMBDA r : r.valid)
    IN  [k \in 1..Len(kept) |-> kept[k].event]

SmallIds == 1..MaxId
SmallEvents == {ProcessedEvent(id, v) : id \in SmallIds, v \in {0, 2}}
SmallRawLists ==
    UNION {[1..n -> {Raw(e) : e \in SmallEvents}] : n \in 0..MaxFresh}
\* One list per field of the record, and the rejects.
FieldRawLists ==
    {<<Raw(ProcessedEvent(1, v))>> : v \in Variants}
    \cup {<<Raw(ProcessedEvent(1, v)), Raw(ProcessedEvent(2, 10))>> : v \in Variants}
    \cup {<<Raw(ProcessedEvent(1, v)), Raw(ProcessedEvent(1, 10))>> : v \in {0, 2}}
RejectRawLists ==
    {<<Rejected>>,
     <<Rejected, Raw(ProcessedEvent(1, 0))>>,
     <<Raw(ProcessedEvent(1, 2)), Rejected, Raw(ProcessedEvent(2, 0))>>}
\* Lists longer than one batch: identities lo .. lo+n-1, the odd ones with a
\* changed description.
LargeSizes ==
    {BATCH_SIZE, BATCH_SIZE + 1, BATCH_SIZE + MaxOver, 2 * BATCH_SIZE + 1}
LargeRawLists ==
    {[k \in 1..n |-> Raw(ProcessedEvent(lo + k - 1,
                                        IF (lo + k - 1) % 2 = 1 THEN 2 ELSE 0))] :
        n \in LargeSizes, lo \in {1, 2}}
StoredItem(id) == ProcessedEventToItem(ProcessedEvent(id, 0))
\* Tables left by earlier cycles: base records of some identities, and the
\* item written for each variant of identity 1.
BaseStores == {[id \in S |-> StoredItem(id)] : S \in SUBSET SmallIds}
VariantStores ==
    {[id \in {1} |-> ProcessedEventToItem(ProcessedEvent(1, v))] : v \in Variants}
LargeStores == {[id \in 1..n |-> StoredItem(id)] : n \in LargeSizes}
Stores == BaseStores \cup VariantStores \cup LargeStores

\* The lists fetched against table t: every short list meets every small
\* table of base records, the long lists meet these and the large tables,
\* the one-field lists meet every table.
RawLists(t) ==
    IF t \in BaseStores
    THEN SmallRawLists \cup FieldRawLists \cup RejectRawLists \cup LargeRawLists
    ELSE IF t \in LargeStores
    THEN {<<>>} \cup FieldRawLists \cup RejectRawLists \cup LargeRawLists
    ELSE {<<>>} \cup FieldRawLists

\* Exceptions of the collaborators.
FetchErrors ==
    {[type |-> "ConnectionError", msg |-> "Network error"],
     [type |-> "Timeout", msg |-> "Read timed out"]}
ClientError ==
    [type |-> "ClientError", msg |-> "ProvisionedThroughputExceededException"]
OtherError ==
    [type |-> "EndpointConnectionError", msg |-> "Could not connect to the endpoint URL"]
StoreErrors == {ClientError, OtherError}

(***************************************************************************)
(* State.                                                                  *)
(***************************************************************************)
VARIABLES
    pc,                  \* position of the cycle
    table,               \* the DynamoDB table: event_id -> item
    raw_events,          \* lambda_handler: result of fetch_events
    processed_events,    \* lambda_handler: result of process_events
    existing_events,     \* sync_events: the loaded snapshot
    events_to_add,       \* sync_events: the plan
    events_to_update,
    event_ids_to_delete,
    i,                   \* batch_*_events: offset of the next batch
    success_count,       \* batch_*_events
    added_count,         \* sync_events
    updated_count,
    deleted_count,
    errors,
    sync_result,         \* what sync_events returned
    response,            \* what lambda_handler returned
    table0,              \* history: the table when the cycle started
    log,                 \* history: the collaborator calls of the cycle
    proc_pc,             \* position of a call of EventProcessor
    proc_input,          \* process_events: its argument raw_events
    proc_output,         \* process_events: its local processed_events
    proc_index,          \* process_events: records of the loop done so far
    proc_sources,        \* history: place in the input of each output
    utc_offset,          \* seconds east of UTC of the process's local time
    id_args,             \* generate_event_id: arguments of two calls
    id_results,          \* generate_event_id: what the two calls returned
    fetch_pc,            \* position of a call of _fetch_calendar_html
    attempt,             \* _fetch_calendar_html: the loop variable
    http_log,            \* history: what each requests.get came to
    sleeps,              \* history: the arguments of time.sleep
    fetch_outcome,       \* what _fetch_calendar_html returned or raised
    load_pc,             \* position of a call of sync_events up to its plan
    scan_pages,          \* the pages table.scan returns, last one without key
    scan_log,            \* history: what each table.scan came to
    items,               \* get_all_events: its local items
    snapshot,            \* what get_all_events returned
    fresh,               \* sync_events: its argument new_events
    plan,                \* sync_events: the three lists
    load_result          \* sync_events: what its except branch returned

syncVars == <<pc, table, raw_events, processed_events, existing_events,
              events_to_add, events_to_update, event_ids_to_delete, i,
              success_count, added_count, updated_count, deleted_count,
              errors, sync_result, response, table0, log>>
procVars == <<proc_pc, proc_input, proc_output, proc_index, proc_sources,
              utc_offset, id_args, id_results>>
fetchVars == <<fetch_pc, attempt, http_log, sleeps, fetch_outcome>>
loadVars == <<load_pc, scan_pages, scan_log, items, snapshot, fresh, plan,
              load_result>>
vars == <<syncVars, procVars, fetchVars, loadVars>>

handlerVars == <<raw_events, processed_events, response>>
planVars == <<existing_events, events_to_add, events_to_update,
              event_ids_to_delete>>
countVars == <<added_count, updated_count, deleted_count>>

NoResult == SyncResult(-1, -1, -1, <<>>)
NoResponse == [statusCode |-> 0]

\* A call of a collaborator: a batch call records the number of its batch,
\* the identities it carries and how many of them the caller counted.
NoError == [type |-> "", msg |-> ""]
Attempt(op, chunk, ids, outcome, counted, error) ==
    [op |-> op, chunk |-> chunk, ids |-> ids, outcome |-> outcome,
     counted |-> counted, error |-> error]
Call(op) == Attempt(op, 0, <<>>, "ok", 0, NoError)

\* No call of the processor is under way.
ProcIdle ==
    /\ proc_pc = "idle"
    /\ proc_input = <<>>
    /\ proc_output = <<>>
    /\ proc_index = 0
    /\ proc_sources = <<>>
    /\ utc_offset = 0
    /\ id_args = <<>>
    /\ id_results = <<>>

\* No call of _fetch_calendar_html is under way.
FetchIdle ==
    /\ fetch_pc = "idle"
    /\ attempt = 0
    /\ http_log = <<>>
    /\ sleeps = <<>>
    /\ fetch_outcome = <<>>

\* No detailed load is under way.
LoadIdle ==
    /\ load_pc = "idle"
    /\ scan_pages = <<>>
    /\ scan_log = <<>>
    /\ items = <<>>
    /\ snapshot = <<>>
    /\ fresh = <<>>
    /\ plan = <<>>
    /\ load_result = <<>>

Init ==
    /\ pc = "fetch"
    /\ table \in Stores
    /\ table0 = table
    /\ raw_events = <<>>
    /\ processed_events = <<>>
    /\ existing_events = <<>>
    /\ events_to_add = <<>>
    /\ events_to_update = <<>>
    /\ event_ids_to_delete = <<>>
    /\ i = 0
    /\ success_count = 0
    /\ added_count = 0
    /\ updated_count = 0
    /\ deleted_count = 0
    /\ errors = <<>>
    /\ sync_result = NoResult
    /\ response = NoResponse
    /\ log = <<>>
    /\ ProcIdle
    /\ FetchIdle
    /\ LoadIdle

(***************************************************************************)
(* lambda_handler: fetch and normalize.                                    *)
(***************************************************************************)
\* scraper.fetch_events returns.
FetchEventsOk ==
    /\ pc = "fetch"
    /\ UNCHANGED <<procVars, fetchVars, loadVars>>
    /\ \E raw \in RawLists(table) : raw_events' = raw
    /\ log' = Append(log, Call("fetch"))
    /\ pc' = "process"
    /\ UNCHANGED <<table, processed_events, planVars, i, success_count,
                   countVars, errors, sync_result, response, table0>>

\* Mutation of FetchEventsFail: a failed fetch is taken for an empty one.
FetchEventsFailContinues ==
    /\ pc = "fetch"
    /\ UNCHANGED <<procVars, fetchVars, loadVars>>
    /\ \E e \in FetchErrors :
          /\ raw_events' = <<>>
          /\ log' = Append(log, Attempt("fetch", 0, <<>>, "error", 0, e))
    /\ pc' = "process"
    /\ UNCHANGED <<table, processed_events, planVars, i, success_count,
                   countVars, errors, sync_result, response, table0>>

\* scraper.fetch_events raises after its retries: the handler answers 500
\* with the error and its type, and returns.
FetchEventsFail ==
    /\ pc = "fetch"
    /\ UNCHANGED <<procVars, fetchVars, loadVars>>
    /\ \E e \in FetchErrors :
          /\ response' = [statusCode |-> 500,
                          message    |-> "Failed to fetch calendar events",
                          error      |-> e.msg,
                          error_type |-> e.type]
          /\ log' = Append(log, Attempt("fetch", 0, <<>>, "error", 0, e))
    /\ pc' = "done"
    /\ UNCHANGED <<table, raw_events, processed_events, planVars, i,
                   success_count, countVars, errors, sync_result, table0>>

\* Mutation of ProcessEventsStep: the plan is made without loading the
\* snapshot.
ProcessEventsStepSkipsLoad ==
    /\ pc = "process"
    /\ UNCHANGED <<procVars, fetchVars, loadVars>>
    /\ processed_events' = ProcessEvents(raw_events)
    /\ log' = Append(log, Call("process"))
    /\ pc' = "plan"
    /\ UNCHANGED <<table, raw_events, planVars, i, success_count, countVars,
                   errors, sync_result, response, table0>>

\* processor.process_events(raw_events).
ProcessEventsStep ==
    /\ pc = "process"
    /\ UNCHANGED <<procVars, fetchVars, loadVars>>
    /\ processed_events' = ProcessEvents(raw_events)
    /\ log' = Append(log, Call("process"))
    /\ pc' = "load"
    /\ UNCHANGED <<table, raw_events, planVars, i, success_count, countVars,
                   errors, sync_result, response, table0>>

(***************************************************************************)
(* sync_events.                                                            *)
(***************************************************************************)
\* Mutation of SyncExcept: the counts reached so far are returned.
SyncExceptKeepsCounts(e) ==
    /\ errors' = Append(errors, <<"Error during sync operation", e.msg>>)
    /\ sync_result' = SyncResult(added_count, updated_count, deleted_count,
                                 errors')
    /\ pc' = "respond"

\* The except branch of sync_events: one message, all counts zero.
SyncExcept(e) ==
    /\ errors' = Append(errors, <<"Error during sync operation", e.msg>>)
    /\ sync_result' = SyncResult(0, 0, 0, errors')
    /\ pc' = "respond"

\* get_all_events returns the snapshot.
GetAllEventsOk ==
    /\ pc = "load"
    /\ UNCHANGED <<procVars, fetchVars, loadVars>>
    /\ existing_events' = GetAllEvents(table)
    /\ log' = Append(log, Call("scan"))
    /\ pc' = "plan"
    /\ UNCHANGED <<table, handlerVars, events_to_add, events_to_update,
                   event_ids_to_delete, i, success_count, countVars, errors,
                   sync_result, table0>>

\* Mutation of GetAllEventsFail: a failed load is taken for an empty table.
GetAllEventsFailAsEmpty ==
    /\ pc = "load"
    /\ UNCHANGED <<procVars, fetchVars, loadVars>>
    /\ existing_events' = <<>>
    /\ \E e \in StoreErrors :
          log' = Append(log, Attempt("scan", 0, <<>>, "error", 0, e))
    /\ pc' = "plan"
    /\ UNCHANGED <<table, handlerVars, events_to_add, events_to_update,
                   event_ids_to_delete, i, success_count, countVars, errors,
                   sync_result, table0>>

\* table.scan raises: a ClientError is logged and re-raised by
\* get_all_events, any exception lands in the except branch of sync_events.
GetAllEventsFail ==
    /\ pc = "load"
    /\ UNCHANGED <<procVars, fetchVars, loadVars>>
    /\ \E e \in StoreErrors :
          /\ SyncExcept(e)
          /\ log' = Append(log, Attempt("scan", 0, <<>>, "error", 0, e))
    /\ UNCHANGED <<table, handlerVars, planVars, i, success_count, countVars,
                   table0>>

\* Mutation of PlanSync: the deletes are sent first, and nothing after them.
PlanSyncDeletesFirst ==
    /\ pc = "plan"
    /\ UNCHANGED <<procVars, fetchVars, loadVars>>
    /\ \E new_events_dict \in {NewEventsDict(processed_events)} :
           /\ events_to_add' = EventsToAdd(new_events_dict, existing_events)
           /\ events_to_update' =
                  EventsToUpdate(new_events_dict, existing_events)
           /\ event_ids_to_delete' =
                  EventIdsToDelete(new_events_dict, existing_events)
    /\ pc' = IF event_ids_to_delete' /= <<>>
             THEN "delete"
             ELSE IF events_to_add' /= <<>> \/ events_to_update' /= <<>>
             THEN "write" ELSE "result"
    /\ UNCHANGED <<table, handlerVars, existing_events, i, success_count,
                   countVars, errors, sync_result, table0, log>>

\* The plan, and the choice of the first batch operation.
PlanSync ==
    /\ pc = "plan"
    /\ UNCHANGED <<procVars, fetchVars, loadVars>>
    /\ \E new_events_dict \in {NewEventsDict(processed_events)} :
           /\ events_to_add' = EventsToAdd(new_events_dict, existing_events)
           /\ events_to_update' =
                  EventsToUpdate(new_events_dict, existing_events)
           /\ event_ids_to_delete' =
                  EventIdsToDelete(new_events_dict, existing_events)
    /\ pc' = IF events_to_add' /= <<>> \/ events_to_update' /= <<>>
             THEN "write"
             ELSE IF event_ids_to_delete' /= <<>> THEN "delete" ELSE "result"
    /\ UNCHANGED <<table, handlerVars, existing_events, i, success_count,
                   countVars, errors, sync_result, table0, log>>

(***************************************************************************)
(* batch_write_events and batch_delete_events, one batch per step.  The    *)
(* batch writer sends the buffered requests of a batch in one call, when   *)
(* the buffer is full or the with-block exits; a call that raises commits  *)
(* nothing.  success_count is incremented after every put_item or          *)
(* delete_item that returned, so a batch that fails has counted the        *)
(* requests made before the call raised.                                   *)
(***************************************************************************)
\* How many requests of a batch of n had returned when the store call
\* raised: none, all but the one that filled the buffer, or all (raised on
\* exit).
FailPoints(n) == {0, n - 1, n} \cap (0..n)

\* Mutation of WriteList: every fresh record is written.
WriteListAllFresh == NewEventsDict(processed_events)

\* events_to_write = events_to_add + events_to_update
WriteList == events_to_add \o events_to_update

\* Mutation of Batch: a batch runs one item into the next.
BatchOverlapping(list) ==
    SubSeq(list, i + 1, Min(i + BATCH_SIZE + 1, Len(list)))

\* list[i:i + BATCH_SIZE]
Batch(list) == SubSeq(list, i + 1, Min(i + BATCH_SIZE, Len(list)))

BatchNumber == (i \div BATCH_SIZE) + 1

IdsOf(batch) == [k \in 1..Len(batch) |-> batch[k].event_id]

\* Mutation of PutAll: the base record of the identity is written instead
\* of the record of the batch.
PutAllStale(t, batch) ==
    [id \in DOMAIN t \cup EventIds(batch) |->
        IF id \in EventIds(batch) THEN StoredItem(id) ELSE t[id]]

\* The table after every put_item of the batch is committed.
PutAll(t, batch) ==
    [id \in DOMAIN t \cup EventIds(batch) |->
        IF id \in EventIds(batch)
        THEN ProcessedEventToItem(
                 batch[CHOOSE k \in 1..Len(batch) :
                          /\ batch[k].event_id = id
                          /\ \A j \in (k + 1)..Len(batch) :
                                 batch[j].event_id /= id])
        ELSE t[id]]

\* The table after every delete_item of the batch is committed.
DeleteAll(t, batch) == [id \in DOMAIN t \ Range(batch) |-> t[id]]

\* Mutation of WriteNext: the whole count of the batch write is reported
\* as added.
WriteNextAllAdded(cnt) ==
    IF i + BATCH_SIZE < Len(WriteList)
    THEN /\ i' = i + BATCH_SIZE
         /\ success_count' = cnt
         /\ pc' = "write"
         /\ UNCHANGED countVars
    ELSE /\ i' = 0
         /\ success_count' = 0
         /\ added_count' = cnt
         /\ updated_count' = 0
         /\ UNCHANGED deleted_count
         /\ pc' = IF event_ids_to_delete /= <<>> THEN "delete" ELSE "result"

\* End of one iteration of the loop of batch_write_events with cnt items
\* counted so far: the next batch, or the return to sync_events, which
\* splits the count between added and updated and turns to the deletes.
WriteNext(cnt) ==
    IF i + BATCH_SIZE < Len(WriteList)
    THEN /\ i' = i + BATCH_SIZE
         /\ success_count' = cnt
         /\ pc' = "write"
         /\ UNCHANGED countVars
    ELSE /\ i' = 0
         /\ success_count' = 0
         /\ added_count' = Min(cnt, Len(events_to_add))
         /\ updated_count' = cnt - added_count'
         /\ UNCHANGED deleted_count
         /\ pc' = IF event_ids_to_delete /= <<>> THEN "delete" ELSE "result"

\* End of one iteration of the loop of batch_delete_events.
DeleteNext(cnt) ==
    IF i + BATCH_SIZE < Len(event_ids_to_delete)
    THEN /\ i' = i + BATCH_SIZE
         /\ success_count' = cnt
         /\ pc' = "delete"
         /\ UNCHANGED countVars
    ELSE /\ i' = 0
         /\ success_count' = 0
         /\ deleted_count' = cnt
         /\ UNCHANGED <<added_count, updated_count>>
         /\ pc' = "result"

\* A write batch is committed.
WriteChunkOk ==
    /\ pc = "write"
    /\ UNCHANGED <<procVars, fetchVars, loadVars>>
    /\ LET batch == Batch(WriteList)
       IN  /\ table' = PutAll(table, batch)
           /\ log' = Append(log, Attempt("put", BatchNumber, IdsOf(batch),
                                         "ok", Len(batch), NoError))
           /\ WriteNext(success_count + Len(batch))
    /\ UNCHANGED <<handlerVars, planVars, errors, sync_result, table0>>

\* The store call of a write batch raises ClientError: logged, and the
\* loop continues with the next batch.
WriteChunkClientError ==
    /\ pc = "write"
    /\ UNCHANGED <<procVars, fetchVars, loadVars>>
    /\ LET batch == Batch(WriteList)
       IN  \E k \in FailPoints(Len(batch)) :
              /\ log' = Append(log, Attempt("put", BatchNumber, IdsOf(batch),
                                            "client_error", k, ClientError))
              /\ WriteNext(success_count + k)
    /\ UNCHANGED <<table, handlerVars, planVars, errors, sync_result, table0>>

\* The store call of a write batch raises anything else: the exception
\* leaves batch_write_events and is caught by sync_events.
WriteChunkException ==
    /\ pc = "write"
    /\ UNCHANGED <<procVars, fetchVars, loadVars>>
    /\ LET batch == Batch(WriteList)
       IN  log' = Append(log, Attempt("put", BatchNumber, IdsOf(batch),
                                     "error", 0, OtherError))
    /\ SyncExcept(OtherError)
    /\ UNCHANGED <<table, handlerVars, planVars, i, success_count, countVars,
                   table0>>

\* A delete batch is committed.
DeleteChunkOk ==
    /\ pc = "delete"
    /\ UNCHANGED <<procVars, fetchVars, loadVars>>
    /\ LET batch == Batch(event_ids_to_delete)
       IN  /\ table' = DeleteAll(table, batch)
           /\ log' = Append(log, Attempt("delete", BatchNumber, batch,
                                         "ok", Len(batch), NoError))
           /\ DeleteNext(success_count + Len(batch))
    /\ UNCHANGED <<handlerVars, planVars, errors, sync_result, table0>>

\* The store call of a delete batch raises ClientError.
DeleteChunkClientError ==
    /\ pc = "delete"
    /\ UNCHANGED <<procVars, fetchVars, loadVars>>
    /\ LET batch == Batch(event_ids_to_delete)
       IN  \E k \in FailPoints(Len(batch)) :
              /\ log' = Append(log, Attempt("delete", BatchNumber, batch,
                                            "client_error", k, ClientError))
              /\ DeleteNext(success_count + k)
    /\ UNCHANGED <<table, handlerVars, planVars, errors, sync_result, table0>>

\* The store call of a delete batch raises anything else.
DeleteChunkException ==
    /\ pc = "delete"
    /\ UNCHANGED <<procVars, fetchVars, loadVars>>
    /\ LET batch == Batch(event_ids_to_delete)
       IN  log' = Append(log, Attempt("delete", BatchNumber, batch,
                                     "error", 0, OtherError))
    /\ SyncExcept(OtherError)
    /\ UNCHANGED <<table, handlerVars, planVars, i, success_count, countVars,
                   table0>>

\* sync_events returns its SyncResult.
SyncReturn ==
    /\ pc = "result"
    /\ UNCHANGED <<procVars, fetchVars, loadVars>>
    /\ sync_result' = SyncResult(added_count, updated_count, deleted_count,
                                 errors)
    /\ pc' = "respond"
    /\ UNCHANGED <<table, handlerVars, planVars, i, success_count, countVars,
                   errors, table0, log>>

(***************************************************************************)
(* lambda_handler after sync_events returned.  sync_events catches every   *)
(* exception itself, so the handler's own except branch around the call    *)
(* is never entered.                                                       *)
(***************************************************************************)
\* Mutation of Respond: a result with errors is answered 207.
RespondMultiStatus ==
    /\ pc = "respond"
    /\ UNCHANGED <<procVars, fetchVars, loadVars>>
    /\ response' =
          [statusCode |-> IF sync_result.errors = <<>> THEN 200 ELSE 207,
           message    |-> "Sync completed successfully",
           statistics |-> [raw_events_fetched     |-> Len(raw_events),
                           valid_events_processed |-> Len(processed_events),
                           events_added           |-> sync_result.added,
                           events_updated         |-> sync_result.updated,
                           events_deleted         |-> sync_result.deleted],
           errors     |-> sync_result.errors]
    /\ pc' = "done"
    /\ UNCHANGED <<table, raw_events, processed_events, planVars, i,
                   success_count, countVars, errors, sync_result, table0, log>>

\* The success response of lambda_handler.
Respond ==
    /\ pc = "respond"
    /\ UNCHANGED <<procVars, fetchVars, loadVars>>
    /\ response' =
          [statusCode |-> 200,
           message    |-> "Sync completed successfully",
           statistics |-> [raw_events_fetched     |-> Len(raw_events),
                           valid_events_processed |-> Len(processed_events),
                           events_added           |-> sync_result.added,
                           events_updated         |-> sync_result.updated,
                           events_deleted         |-> sync_result.deleted],
           errors     |-> sync_result.errors]
    /\ pc' = "done"
    /\ UNCHANGED <<table, raw_events, processed_events, planVars, i,
                   success_count, countVars, errors, sync_result, table0, log>>

Next ==
    \/ FetchEventsOk
    \/ FetchEventsFail
    \/ ProcessEventsStep
    \/ GetAllEventsOk
    \/ GetAllEventsFail
    \/ PlanSync
    \/ WriteChunkOk
    \/ WriteChunkClientError
    \/ WriteChunkException
    \/ DeleteChunkOk
    \/ DeleteChunkClientError
    \/ DeleteChunkException
    \/ SyncReturn
    \/ Respond

Spec == Init /\ [][Next]_vars

(***************************************************************************)
(* processor/event_processor.py: EventProcessor, on character strings.  A  *)
(* string is the sequence of its characters and NoStr stands for None.     *)
(* The digest of generate_event_id is taken to be free of collisions: an   *)
(* identity is modelled by the composite string that is hashed.            *)
(***************************************************************************)
NoStr == <<"None">>

\* EventProcessor.MAX_TITLE_LENGTH, MAX_DESCRIPTION_LENGTH, TTL_DAYS
MAX_TITLE_LENGTH == 200
MAX_DESCRIPTION_LENGTH == 2000
TTL_DAYS == 90

Digits == <<"0", "1", "2", "3", "4", "5", "6", "7", "8", "9">>
UpperCase == <<"A", "B", "C", "D", "E", "F", "G", "H", "I", "J", "K", "L", "M", "N", "O", "P", "Q", "R", "S", "T", "U", "V", "W", "X", "Y", "Z">>
LowerCase == <<"a", "b", "c", "d", "e", "f", "g", "h", "i", "j", "k", "l", "m", "n", "o", "p", "q", "r", "s", "t", "u", "v", "w", "x", "y", "z">>

IsDigit(c) == \E k \in 1..10 : Digits[k] = c
DigitVal(c) == (CHOOSE k \in 1..10 : Digits[k] = c) - 1
IsSpace(c) == c \in {" ", "\t", "\n"}
ToLower(c) ==
    IF \E k \in 1..26 : UpperCase[k] = c
    THEN LowerCase[CHOOSE k \in 1..26 : UpperCase[k] = c]
    ELSE c
LowerStr(s) == [k \in 1..Len(s) |-> ToLower(s[k])]

\* A local variable: F of the value of v, which is computed once.
Bind(v, F(_)) == CHOOSE r \in {F(x) : x \in {v}} : TRUE

\* Truth value of an optional string: None and '' are falsy.
Truthy(s) == s /= NoStr /\ s /= <<>>

\* str.strip(): without leading and trailing whitespace.
Strip(s) ==
    IF \A k \in 1..Len(s) : IsSpace(s[k]) THEN <<>>
    ELSE SubSeq(s,
             CHOOSE k \in 1..Len(s) :
                 ~IsSpace(s[k]) /\ \A j \in 1..(k - 1) : IsSpace(s[j]),
             CHOOSE k \in 1..Len(s) :
                 ~IsSpace(s[k]) /\ \A j \in (k + 1)..Len(s) : IsSpace(s[j]))

\* Mutation of Prefix: one character more is kept.
PrefixAndOne(s, n) == SubSeq(s, 1, Min(n + 1, Len(s)))

\* s[:n]
Prefix(s, n) == SubSeq(s, 1, Min(n, Len(s)))

AllDigits(s) == s /= <<>> /\ \A k \in 1..Len(s) : IsDigit(s[k])

RECURSIVE NumVal(_)
\* int(s) of a string of digits.
NumVal(s) ==
    IF s = <<>> THEN 0
    ELSE 10 * NumVal(SubSeq(s, 1, Len(s) - 1)) + DigitVal(s[Len(s)])

RECURSIVE Decimal(_)
\* The decimal digits of n >= 0, without padding.
Decimal(n) ==
    IF n < 10 THEN <<Digits[n + 1]>>
    ELSE Decimal(n \div 10) \o <<Digits[(n % 10) + 1]>>

\* Two digits, zero-padded (strftime %m, %d, %H, %M).
TwoDigits(n) == <<Digits[(n \div 10) + 1], Digits[(n % 10) + 1]>>

\* Month names of the C locale as strptime compares them, in lower case.
MonthNames ==
    << <<"j", "a", "n", "u", "a", "r", "y">>,
       <<"f", "e", "b", "r", "u", "a", "r", "y">>,
       <<"m", "a", "r", "c", "h">>,
       <<"a", "p", "r", "i", "l">>,
       <<"m", "a", "y">>,
       <<"j", "u", "n", "e">>,
       <<"j", "u", "l", "y">>,
       <<"a", "u", "g", "u", "s", "t">>,
       <<"s", "e", "p", "t", "e", "m", "b", "e", "r">>,
       <<"o", "c", "t", "o", "b", "e", "r">>,
       <<"n", "o", "v", "e", "m", "b", "e", "r">>,
       <<"d", "e", "c", "e", "m", "b", "e", "r">> >>
MonthAbbrs == [m \in 1..12 |-> Prefix(MonthNames[m], 3)]
AmPm == << <<"a", "m">>, <<"p", "m">> >>

\* The values the regular expression of a numeric directive accepts:
\* m and I 1[0-2]|0[1-9]|[1-9], d 3[01]|[12]\d|0[1-9]|[1-9]| [1-9],
\* H 2[0-3]|[0-1]\d|\d, M [0-5]\d|\d, S 6[0-1]|[0-5]\d|\d.
NumericRange(tok) ==
    CASE tok \in {"%m", "%I"} -> 1..12
      [] tok = "%d" -> 1..31
      [] tok = "%H" -> 0..23
      [] tok = "%M" -> 0..59
      [] tok = "%S" -> 0..61

Directives == {"%Y", "%m", "%d", "%B", "%b", "%H", "%I", "%M", "%S", "%p"}

\* The ways one element of a format matches s from position pos on: pairs
\* of the position after the match and the value read.  A blank of the
\* format matches any run of whitespace, any other character itself.
TokenMatches(s, pos, tok) ==
    LET fits(n) == pos + n - 1 <= Len(s)
        text(n) == SubSeq(s, pos, pos + n - 1)
        named(names) ==
            {<<pos + Len(names[m]), m>> :
                m \in {j \in 1..Len(names) :
                          /\ fits(Len(names[j]))
                          /\ LowerStr(text(Len(names[j]))) = names[j]}}
    IN  CASE tok = "%Y" ->
                IF fits(4) /\ AllDigits(text(4))
                THEN {<<pos + 4, NumVal(text(4))>>}
                ELSE {}
          [] tok \in {"%m", "%I", "%d", "%H", "%M", "%S"} ->
                {<<pos + n, NumVal(text(n))>> :
                    n \in {m \in 1..2 : /\ fits(m)
                                        /\ AllDigits(text(m))
                                        /\ NumVal(text(m)) \in NumericRange(tok)}}
                \cup (IF /\ tok = "%d"
                         /\ fits(2)
                         /\ s[pos] = " "
                         /\ IsDigit(s[pos + 1])
                         /\ DigitVal(s[pos + 1]) >= 1
                      THEN {<<pos + 2, DigitVal(s[pos + 1])>>}
                      ELSE {})
          [] tok = "%B" -> named(MonthNames)
          [] tok = "%b" -> named(MonthAbbrs)
          [] tok = "%p" ->
                {<<pos + 2, v>> :
                    v \in {j \in 0..1 : fits(2) /\ LowerStr(text(2)) = AmPm[j + 1]}}
          [] tok = " " ->
                {<<pos + n, 0>> :
                    n \in {m \in 1..(Len(s) - pos + 1) :
                              \A j \in pos..(pos + m - 1) : IsSpace(s[j])}}
          [] OTHER ->
                IF fits(1) /\ ToLower(s[pos]) = ToLower(tok)
                THEN {<<pos + 1, 0>>}
                ELSE {}

RECURSIVE StrptimeMatches(_, _, _, _)
\* The readings of s from position pos on against the elements k.. of the
\* format that leave no unconverted data: directive -> value.
StrptimeMatches(s, pos, fmt, k) ==
    IF k > Len(fmt)
    THEN IF pos > Len(s) THEN {<<>>} ELSE {}
    ELSE UNION {
            {IF fmt[k] \in Directives
             THEN [d \in {fmt[k]} |-> m[2]] @@ rest
             ELSE rest :
                rest \in StrptimeMatches(s, m[1], fmt, k + 1)} :
            m \in TokenMatches(s, pos, fmt[k])}

IsLeap(year) == year % 4 = 0 /\ (year % 100 /= 0 \/ year % 400 = 0)
DaysInMonth(year, month) ==
    CASE month = 2 -> IF IsLeap(year) THEN 29 ELSE 28
      [] month \in {4, 6, 9, 11} -> 30
      [] OTHER -> 31

\* strptime raised ValueError.
NoDatetime == [year |-> 0, month |-> 0, day |-> 0, hour |-> 0, minute |-> 0]

\* The datetime of a reading f: fields that the format lacks default to
\* 1900-01-01 00:00:00; a reading that is no date or time of day raises.
ToDatetime(f) ==
    LET has(d) == d \in DOMAIN f
        year == IF has("%Y") THEN f["%Y"] ELSE 1900
        month == IF has("%m") THEN f["%m"]
                 ELSE IF has("%B") THEN f["%B"]
                 ELSE IF has("%b") THEN f["%b"]
                 ELSE 1
        day == IF has("%d") THEN f["%d"] ELSE 1
        hour == IF has("%H") THEN f["%H"]
                ELSE IF has("%I") THEN (f["%I"] % 12) + 12 * f["%p"]
                ELSE 0
        minute == IF has("%M") THEN f["%M"] ELSE 0
        second == IF has("%S") THEN f["%S"] ELSE 0
    IN  IF year < 1 \/ day > DaysInMonth(year, month) \/ second > 59
        THEN NoDatetime
        ELSE [year |-> year, month |-> month, day |-> day,
              hour |-> hour, minute |-> minute]

\* datetime.strptime(s, fmt)
Strptime(s, fmt) ==
    Bind({ToDatetime(f) : f \in StrptimeMatches(s, 1, fmt, 1)},
         LAMBDA read : IF read = {} THEN NoDatetime
                       ELSE CHOOSE dt \in read : TRUE)

\* strftime('%Y-%m-%d'); the C library of the platform renders %Y without
\* padding.
StrftimeDate(dt) ==
    Decimal(dt.year) \o <<"-">> \o TwoDigits(dt.month) \o <<"-">>
        \o TwoDigits(dt.day)

\* strftime('%H:%M')
StrftimeTime(dt) == TwoDigits(dt.hour) \o <<":">> \o TwoDigits(dt.minute)

date_formats ==
    << <<"%Y", "-", "%m", "-", "%d">>,
       <<"%m", "/", "%d", "/", "%Y">>,
       <<"%m", "-", "%d", "-", "%Y">>,
       <<"%B", " ", "%d", ",", " ", "%Y">>,
       <<"%b", " ", "%d", ",", " ", "%Y">>,
       <<"%d", "/", "%m", "/", "%Y">>,
       <<"%Y", "/", "%m", "/", "%d">> >>

time_formats ==
    << <<"%H", ":", "%M">>,
       <<"%I", ":", "%M", " ", "%p">>,
       <<"%I", ":", "%M", "%p">>,
       <<"%H", ":", "%M", ":", "%S">>,
       <<"%I", ":", "%M", ":", "%S", " ", "%p">> >>

RECURSIVE TryFormats(_, _, _)
\* The loop over the formats from the k-th on: the datetime of the first
\* format that reads s, NoDatetime when every strptime raises.
TryFormats(s, formats, k) ==
    IF k > Len(formats) THEN NoDatetime
    ELSE Bind(Strptime(s, formats[k]),
              LAMBDA dt : IF dt /= NoDatetime THEN dt
                          ELSE TryFormats(s, formats, k + 1))

\* EventProcessor._normalize_date: YYYY-MM-DD, or None.
NormalizeDate(date_str) ==
    Bind(Strip(date_str), LAMBDA s :
        Bind(TryFormats(s, date_formats, 1), LAMBDA date_obj :
            IF date_obj = NoDatetime THEN NoStr ELSE StrftimeDate(date_obj)))

\* Mutation of NormalizeTime: a time that some format reads is returned as
\* it was written.
NormalizeTimeAsWritten(time_str) ==
    Bind(Strip(time_str), LAMBDA s :
        Bind(TryFormats(s, time_formats, 1), LAMBDA time_obj :
            IF time_obj = NoDatetime THEN NoStr ELSE s))

\* EventProcessor._normalize_time: HH:MM, or None.
NormalizeTime(time_str) ==
    Bind(Strip(time_str), LAMBDA s :
        Bind(TryFormats(s, time_formats, 1), LAMBDA time_obj :
            IF time_obj = NoDatetime THEN NoStr ELSE StrftimeTime(time_obj)))

\* Days from 1970-01-01 to the given day of the proleptic Gregorian
\* calendar.
DaysFromCivil(year, month, day) ==
    LET y   == IF month <= 2 THEN year - 1 ELSE year
        era == y \div 400
        yoe == y - era * 400
        mp  == IF month > 2 THEN month - 3 ELSE month + 9
        doy == (153 * mp + 2) \div 5 + day - 1
        doe == yoe * 365 + yoe \div 4 - yoe \div 100 + doy
    IN  era * 146097 + doe - 719468

\* datetime.max is in year 9999.
MaxDay == DaysFromCivil(9999, 12, 31)

\* EventProcessor._calculate_ttl: the timestamp of local midnight TTL_DAYS
\* days after the date, in a process whose local time is offset seconds
\* east of UTC; raises when the string is no %Y-%m-%d date (ValueError) or
\* the sum leaves the range of datetime (OverflowError).
CalculateTtl(event_date, offset) ==
    Bind(Strptime(event_date, date_formats[1]), LAMBDA date_obj :
        IF date_obj = NoDatetime THEN [raised |-> TRUE, ttl |-> 0]
        ELSE Bind(DaysFromCivil(date_obj.year, date_obj.month, date_obj.day)
                      + TTL_DAYS,
                  LAMBDA days :
                      IF days > MaxDay THEN [raised |-> TRUE, ttl |-> 0]
                      ELSE [raised |-> FALSE, ttl |-> days * 86400 - offset]))

\* Mutation of GenerateEventId: the components are joined without '|'.
GenerateEventIdNoSeparator(title, date, time) ==
    title \o date \o time

\* EventProcessor.generate_event_id: the digest of 'title|date|time'.
GenerateEventId(title, date, time) ==
    title \o <<"|">> \o date \o <<"|">> \o time

\* Mutation of ValidateRequiredFields: whitespace is not stripped.
ValidateRequiredFieldsNoStrip(event) ==
    /\ Truthy(event.title)
    /\ Truthy(event.date)
    /\ Truthy(event.start_time)

\* EventProcessor._validate_required_fields
ValidateRequiredFields(event) ==
    /\ Truthy(event.title) /\ Truthy(Strip(event.title))
    /\ Truthy(event.date) /\ Truthy(Strip(event.date))
    /\ Truthy(event.start_time) /\ Truthy(Strip(event.start_time))

\* What _process_single_event does: it returns a record, returns None, or
\* raises.
Returned(e) == [kind |-> "event", event |-> e]
ReturnedNone == [kind |-> "none"]
Raised == [kind |-> "raise"]

\* Mutation of ProcessSingleEvent: the identity is taken from the raw
\* title, date and start_time.
ProcessSingleEventRawId(event, now, offset) ==
    IF ~ValidateRequiredFields(event) THEN ReturnedNone
    ELSE Bind(NormalizeDate(event.date), LAMBDA normalized_date :
         IF ~Truthy(normalized_date) THEN ReturnedNone
    ELSE Bind(NormalizeTime(event.start_time), LAMBDA normalized_start_time :
         IF ~Truthy(normalized_start_time) THEN ReturnedNone
    ELSE Bind(Prefix(event.title, MAX_TITLE_LENGTH), LAMBDA title :
         Bind(CalculateTtl(normalized_date, offset), LAMBDA ttl :
         IF ttl.raised THEN Raised
         ELSE Returned(
                [event_id     |-> GenerateEventId(event.title, event.date,
                                                  event.start_time),
                 title        |-> title,
                 description  |-> Prefix(event.description,
                                         MAX_DESCRIPTION_LENGTH),
                 event_date   |-> normalized_date,
                 start_time   |-> normalized_start_time,
                 end_time     |-> IF Truthy(event.end_time)
                                  THEN NormalizeTime(event.end_time)
                                  ELSE NoStr,
                 location     |-> event.location,
                 category     |-> event.category,
                 url          |-> event.url,
                 last_updated |-> now,
                 ttl          |-> ttl.ttl])))))

\* EventProcessor._process_single_event at time now (int(time.time())).
ProcessSingleEvent(event, now, offset) ==
    IF ~ValidateRequiredFields(event) THEN ReturnedNone
    ELSE Bind(NormalizeDate(event.date), LAMBDA normalized_date :
         IF ~Truthy(normalized_date) THEN ReturnedNone
    ELSE Bind(NormalizeTime(event.start_time), LAMBDA normalized_start_time :
         IF ~Truthy(normalized_start_time) THEN ReturnedNone
    ELSE Bind(Prefix(event.title, MAX_TITLE_LENGTH), LAMBDA title :
         Bind(CalculateTtl(normalized_date, offset), LAMBDA ttl :
         IF ttl.raised THEN Raised
         ELSE Returned(
                [event_id     |-> GenerateEventId(title, normalized_date,
                                                  normalized_start_time),
                 title        |-> title,
                 description  |-> Prefix(event.description,
                                         MAX_DESCRIPTION_LENGTH),
                 event_date   |-> normalized_date,
                 start_time   |-> normalized_start_time,
                 end_time     |-> IF Truthy(event.end_time)
                                  THEN NormalizeTime(event.end_time)
                                  ELSE NoStr,
                 location     |-> event.location,
                 category     |-> event.category,
                 url          |-> event.url,
                 last_updated |-> now,
                 ttl          |-> ttl.ttl])))))

(***************************************************************************)
(* Raw records handed to process_events.                                   *)
(***************************************************************************)
Event(title, date, start_time, end_time, location, description, category, url) ==
    [title |-> title, date |-> date, start_time |-> start_time,
     end_time |-> end_time, location |-> location,
     description |-> description, category |-> category, url |-> url]

\* Titles of MAX_TITLE_LENGTH + 1 characters that differ in the last one.
LongTitle(c) ==
    [k \in 1..(MAX_TITLE_LENGTH + 1) |-> IF k <= MAX_TITLE_LENGTH THEN "x" ELSE c]

\* Descriptions of MAX_DESCRIPTION_LENGTH + 1 characters.
LongDescription(c) ==
    [k \in 1..(MAX_DESCRIPTION_LENGTH + 1) |->
        IF k <= MAX_DESCRIPTION_LENGTH THEN "x" ELSE c]

Titles ==
    {NoStr, <<>>, <<" ">>, <<"A">>, <<"B">>, <<"A", "|", "B">>, <<" ", "A">>,
     LongTitle("y"), LongTitle("z")}

Dates ==
    {NoStr, <<>>, <<" ", " ">>,
     <<"2", "0", "2", "4", "-", "0", "1", "-", "1", "5">>,
     <<" ", "2", "0", "2", "4", "-", "0", "1", "-", "1", "5", " ">>,
     <<"0", "1", "/", "1", "5", "/", "2", "0", "2", "4">>,
     <<"1", "/", "5", "/", "2", "0", "2", "4">>,
     <<"0", "1", "-", "1", "5", "-", "2", "0", "2", "4">>,
     <<"J", "a", "n", "u", "a", "r", "y", " ", "1", "5", ",", " ", "2", "0", "2", "4">>,
     <<"J", "a", "n", " ", "1", "5", ",", " ", "2", "0", "2", "4">>,
     <<"1", "5", "/", "0", "1", "/", "2", "0", "2", "4">>,
     <<"2", "0", "2", "4", "/", "0", "1", "/", "1", "5">>,
     <<"2", "0", "2", "4", "-", "0", "2", "-", "2", "9">>,
     <<"0", "2", "/", "3", "0", "/", "2", "0", "2", "4">>,
     <<"s", "o", "o", "n">>,
     <<"9", "9", "9", "9", "-", "1", "2", "-", "3", "1">>,
     <<"0", "1", "/", "0", "2", "/", "2", "0", "2", "4">>,
     <<"0", "0", "9", "9", "-", "0", "1", "-", "1", "5">>}

StartTimes ==
    {NoStr, <<>>, <<" ">>,
     <<"1", "9", ":", "0", "0">>,
     <<" ", "1", "9", ":", "0", "0", " ">>,
     <<"7", ":", "0", "0", " ", "P", "M">>,
     <<"7", ":", "0", "0", "p", "m">>,
     <<"1", "9", ":", "0", "0", ":", "3", "0">>,
     <<"7", ":", "0", "0", ":", "3", "0", " ", "P", "M">>,
     <<"1", "2", ":", "0", "0", " ", "A", "M">>,
     <<"2", "5", ":", "0", "0">>,
     <<"n", "o", "o", "n">>}

EndTimes ==
    {NoStr, <<>>,
     <<"2", "1", ":", "0", "0">>,
     <<"9", ":", "0", "0", " ", "P", "M">>,
     <<"l", "a", "t", "e">>}

BaseEvent ==
    Event(<<"A">>, <<"2", "0", "2", "4", "-", "0", "1", "-", "1", "5">>, <<"1", "9", ":", "0", "0">>, <<"2", "1", ":", "0", "0">>, <<"L">>, <<"d">>, <<"c">>,
          <<"u">>)
\* The base record in other raw forms and with other fields beside the
\* title, the date and the start.
SameEvent ==
    Event(<<"A">>, <<"0", "1", "/", "1", "5", "/", "2", "0", "2", "4">>, <<"7", ":", "0", "0", " ", "P", "M">>, NoStr, <<"M">>, <<"e">>, <<"k">>,
          NoStr)

TitleDateEvents ==
    {[BaseEvent EXCEPT !.title = t, !.date = d] : t \in Titles, d \in Dates}
TimeEvents ==
    {[BaseEvent EXCEPT !.start_time = s, !.end_time = e] :
        s \in StartTimes, e \in EndTimes}
OtherEvents ==
    {SameEvent,
     [BaseEvent EXCEPT !.description = <<"e">>],
     [BaseEvent EXCEPT !.location = <<"M">>],
     [BaseEvent EXCEPT !.category = <<"k">>],
     [BaseEvent EXCEPT !.url = NoStr],
     [BaseEvent EXCEPT !.url = <<>>],
     [BaseEvent EXCEPT !.description = LongDescription("y")],
     [BaseEvent EXCEPT !.description = Prefix(LongDescription("y"), MAX_DESCRIPTION_LENGTH)],
     [BaseEvent EXCEPT !.title = LongTitle("y"), !.description = LongDescription("z")]}
Events == TitleDateEvents \cup TimeEvents \cup OtherEvents

\* Records met in lists of several: valid ones, some with the same title,
\* date and start after normalization, rejected ones, and one whose expiry
\* cannot be computed.
NotableEvents ==
    {BaseEvent,
     SameEvent,
     [BaseEvent EXCEPT !.title = <<"B">>],
     [BaseEvent EXCEPT !.title = <<"A", "|", "B">>],
     [BaseEvent EXCEPT !.title = LongTitle("y")],
     [BaseEvent EXCEPT !.title = LongTitle("z")],
     [BaseEvent EXCEPT !.title = <<" ">>],
     [BaseEvent EXCEPT !.date = <<"s", "o", "o", "n">>],
     [BaseEvent EXCEPT !.date = <<"9", "9", "9", "9", "-", "1", "2", "-", "3", "1">>],
     [BaseEvent EXCEPT !.start_time = NoStr],
     [BaseEvent EXCEPT !.start_time = <<"2", "5", ":", "0", "0">>],
     [BaseEvent EXCEPT !.end_time = <<"l", "a", "t", "e">>]}

EventLists ==
    {<<>>}
    \cup {<<e>> : e \in Events}
    \cup {<<a, b>> : a \in NotableEvents, b \in NotableEvents}
    \cup {<<BaseEvent, a, SameEvent, b>> :
             a \in NotableEvents, b \in {BaseEvent, [BaseEvent EXCEPT !.title = <<"B">>]}}

\* Local time of the process: UTC, or US Eastern standard time.
UtcOffsets == {0, -18000}

\* Values of int(time.time()) while a list is processed.
Clock == {1700000000, 1700000001}

\* Arguments of direct calls of generate_event_id.
IdStrings == {<<>>, <<"a">>, <<"b">>, <<"a", "|", "b">>, <<"b", "|", "a">>}
IdTriples ==
    {<<t, d, s>> : t \in IdStrings, d \in IdStrings, s \in {<<>>, <<"b">>}}

(***************************************************************************)
(* Calls of the processor: process_events on a list, and two calls of      *)
(* generate_event_id.                                                      *)
(***************************************************************************)
SyncIdle ==
    /\ pc = "idle"
    /\ table = <<>>
    /\ table0 = <<>>
    /\ raw_events = <<>>
    /\ processed_events = <<>>
    /\ existing_events = <<>>
    /\ events_to_add = <<>>
    /\ events_to_update = <<>>
    /\ event_ids_to_delete = <<>>
    /\ i = 0
    /\ success_count = 0
    /\ added_count = 0
    /\ updated_count = 0
    /\ deleted_count = 0
    /\ errors = <<>>
    /\ sync_result = NoResult
    /\ response = NoResponse
    /\ log = <<>>

InitProc ==
    /\ SyncIdle
    /\ FetchIdle
    /\ LoadIdle
    /\ proc_output = <<>>
    /\ proc_index = 0
    /\ proc_sources = <<>>
    /\ id_results = <<>>
    /\ \/ /\ proc_pc = "loop"
          /\ proc_input \in EventLists
          /\ utc_offset \in UtcOffsets
          /\ id_args = <<>>
       \/ /\ proc_pc = "ids"
          /\ proc_input = <<>>
          /\ utc_offset = 0
          /\ id_args \in IdTriples \X IdTriples

\* One turn of the loop of process_events: _process_single_event returns a
\* record, which is appended.
ProcessEventAppended ==
    /\ proc_pc = "loop"
    /\ proc_index < Len(proc_input)
    /\ \E now \in Clock :
          \E r \in {ProcessSingleEvent(proc_input[proc_index + 1], now,
                                       utc_offset)} :
              /\ r.kind = "event"
              /\ proc_output' = Append(proc_output, r.event)
              /\ proc_sources' = Append(proc_sources, proc_index + 1)
    /\ proc_index' = proc_index + 1
    /\ UNCHANGED <<syncVars, fetchVars, loadVars,
                   proc_pc, proc_input, utc_offset, id_args,
                   id_results>>

\* _process_single_event returns None: nothing is appended.
ProcessEventRejected ==
    /\ proc_pc = "loop"
    /\ proc_index < Len(proc_input)
    /\ \E now \in Clock :
          ProcessSingleEvent(proc_input[proc_index + 1], now,
                             utc_offset).kind = "none"
    /\ proc_index' = proc_index + 1
    /\ UNCHANGED <<syncVars, fetchVars, loadVars,
                   proc_pc, proc_input, proc_output, proc_sources,
                   utc_offset, id_args, id_results>>

\* Mutation of ProcessEventRaised: the exception leaves process_events.
ProcessEventRaisedEscapes ==
    /\ proc_pc = "loop"
    /\ proc_index < Len(proc_input)
    /\ \E now \in Clock :
          ProcessSingleEvent(proc_input[proc_index + 1], now,
                             utc_offset).kind = "raise"
    /\ proc_pc' = "raised"
    /\ UNCHANGED <<syncVars, fetchVars, loadVars,
                   proc_index, proc_input, proc_output,
                   proc_sources, utc_offset, id_args, id_results>>

\* _process_single_event raises: the except clause logs and continues.
ProcessEventRaised ==
    /\ proc_pc = "loop"
    /\ proc_index < Len(proc_input)
    /\ \E now \in Clock :
          ProcessSingleEvent(proc_input[proc_index + 1], now,
                             utc_offset).kind = "raise"
    /\ proc_index' = proc_index + 1
    /\ UNCHANGED <<syncVars, fetchVars, loadVars,
                   proc_pc, proc_input, proc_output, proc_sources,
                   utc_offset, id_args, id_results>>

\* The loop is over: process_events returns processed_events.
ProcessEventsReturn ==
    /\ proc_pc = "loop"
    /\ proc_index = Len(proc_input)
    /\ proc_pc' = "done"
    /\ UNCHANGED <<syncVars, fetchVars, loadVars,
                   proc_input, proc_output, proc_index,
                   proc_sources, utc_offset, id_args, id_results>>

\* Two calls of generate_event_id.
GenerateEventIds ==
    /\ proc_pc = "ids"
    /\ id_results' =
          <<GenerateEventId(id_args[1][1], id_args[1][2], id_args[1][3]),
            GenerateEventId(id_args[2][1], id_args[2][2], id_args[2][3])>>
    /\ proc_pc' = "done"
    /\ UNCHANGED <<syncVars, fetchVars, loadVars,
                   proc_input, proc_output, proc_index,
                   proc_sources, utc_offset, id_args>>

NextProc ==
    \/ ProcessEventAppended
    \/ ProcessEventRejected
    \/ ProcessEventRaised
    \/ ProcessEventsReturn
    \/ GenerateEventIds

SpecProc == InitProc /\ [][NextProc]_vars

(***************************************************************************)
(* scraper/villages_calendar.py: _fetch_calendar_html, one requests.get    *)
(* per step.  requests.get and raise_for_status raise exceptions of        *)
(* requests only, all of them RequestException.                            *)
(***************************************************************************)
\* max_retries and base_delay of _fetch_calendar_html
max_retries == 3
base_delay == 1

\* response.text of an answer whose status is no error.
CalendarPages == {"no event-item", "one event-item", "two event-items"}

RequestExceptions ==
    {[type |-> "Timeout", msg |-> "Request timeout"],
     [type |-> "ConnectionError", msg |-> "Network error"],
     [type |-> "HTTPError", msg |-> "500 Server Error"],
     [type |-> "HTTPError", msg |-> "404 Client Error"]}

Request(outcome, text, error) ==
    [outcome |-> outcome, text |-> text, error |-> error]

\* Mutation of Delay: the delay does not grow.
DelayConstant(n) == base_delay

\* delay = base_delay * (2 ** attempt)
Delay(n) == base_delay * (2 ^ n)

InitFetch ==
    /\ SyncIdle
    /\ ProcIdle
    /\ LoadIdle
    /\ fetch_pc = "request"
    /\ attempt = 0
    /\ http_log = <<>>
    /\ sleeps = <<>>
    /\ fetch_outcome = <<>>

\* requests.get answers and raise_for_status passes: response.text is
\* returned.
RequestOk ==
    /\ fetch_pc = "request"
    /\ \E text \in CalendarPages :
          /\ http_log' = Append(http_log, Request("ok", text, NoError))
          /\ fetch_outcome' = [kind |-> "returned", text |-> text]
    /\ fetch_pc' = "done"
    /\ UNCHANGED <<syncVars, procVars, loadVars, attempt, sleeps>>

\* Mutation of RequestFailedRetry: the attempts are not counted.
RequestFailedRetryForever ==
    /\ fetch_pc = "request"
    /\ \E e \in RequestExceptions :
          http_log' = Append(http_log, Request("error", "", e))
    /\ sleeps' = Append(sleeps, Delay(attempt))
    /\ UNCHANGED <<syncVars, procVars, loadVars, fetch_pc, fetch_outcome,
                   attempt>>

\* The request raises RequestException and attempts are left: sleep, then
\* the next turn of the loop.
RequestFailedRetry ==
    /\ fetch_pc = "request"
    /\ attempt < max_retries - 1
    /\ \E e \in RequestExceptions :
          http_log' = Append(http_log, Request("error", "", e))
    /\ sleeps' = Append(sleeps, Delay(attempt))
    /\ attempt' = attempt + 1
    /\ UNCHANGED <<syncVars, procVars, loadVars, fetch_pc, fetch_outcome>>

\* The request of the last attempt raises RequestException: it is raised
\* again.
RequestFailedRaise ==
    /\ fetch_pc = "request"
    /\ ~(attempt < max_retries - 1)
    /\ \E e \in RequestExceptions :
          /\ http_log' = Append(http_log, Request("error", "", e))
          /\ fetch_outcome' = [kind |-> "raised", error |-> e]
    /\ fetch_pc' = "done"
    /\ UNCHANGED <<syncVars, procVars, loadVars, attempt, sleeps>>

NextFetch ==
    \/ RequestOk
    \/ RequestFailedRetry
    \/ RequestFailedRaise

SpecFetch == InitFetch /\ [][NextFetch]_vars

(***************************************************************************)
(* storage/dynamodb_manager.py: sync_events up to its plan, with           *)
(* get_all_events in detail: one table.scan per step, on a table whose     *)
(* items may be malformed.  The numeric attributes carry their DynamoDB    *)
(* type as boto3 returns it: a number (Decimal), a string, or None for     *)
(* NULL.                                                                   *)
(***************************************************************************)
\* Identities of the stored items are 1..MaxStored.
MaxStored == 3

Number(n) == [type |-> "N", numeric |-> TRUE, value |-> n]
\* A string that int() reads, as '5'.
NumericText(n) == [type |-> "S", numeric |-> TRUE, value |-> n]
\* A string that int() does not read, as 'soon'.
OtherText == [type |-> "S", numeric |-> FALSE, value |-> 0]
\* None
Null == [type |-> "NULL", numeric |-> FALSE, value |-> 0]

TypeError ==
    [type |-> "TypeError",
     msg  |-> "int() argument must be a string, a bytes-like object or a real number, not 'NoneType'"]

\* int(x): the integer, or the exception raised.
IntOf(x) ==
    IF x.type = "NULL" THEN [raised |-> "TypeError", value |-> 0]
    ELSE IF ~x.numeric THEN [raised |-> "ValueError", value |-> 0]
    ELSE [raised |-> "", value |-> x.value]

\* The item as _processed_event_to_item wrote it, read back by boto3.
StoredAs(event) ==
    [ProcessedEventToItem(event) EXCEPT !["last_updated"] = Number(@),
                                        !["ttl"] = Number(@)]

Without(item, key) == [k \in DOMAIN item \ {key} |-> item[k]]

\* Items of one identity: the well-formed one and malformed ones.
ItemKinds ==
    {"ok", "no_title", "no_ttl", "ttl_text", "ttl_numeric_text", "ttl_null",
     "last_updated_text", "last_updated_null", "no_category_ttl_null"}
StoredItemOfKind(id, kind) ==
    LET item == StoredAs(ProcessedEvent(id, 0))
    IN  CASE kind = "ok" -> item
          [] kind = "no_title" -> Without(item, "title")
          [] kind = "no_ttl" -> Without(item, "ttl")
          [] kind = "ttl_text" -> [item EXCEPT !["ttl"] = OtherText]
          [] kind = "ttl_numeric_text" -> [item EXCEPT !["ttl"] = NumericText(1)]
          [] kind = "ttl_null" -> [item EXCEPT !["ttl"] = Null]
          [] kind = "last_updated_text" ->
                [item EXCEPT !["last_updated"] = OtherText]
          [] kind = "last_updated_null" ->
                [item EXCEPT !["last_updated"] = Null]
          [] kind = "no_category_ttl_null" ->
                Without([item EXCEPT !["ttl"] = Null], "category")

\* DynamoDBManager._item_to_processed_event with its try/except: the
\* arguments of ProcessedEvent(...) are evaluated in their order; a KeyError
\* or ValueError gives None, any other exception is raised.
ItemToProcessedEventOrNone(item) ==
    IF \E k \in {"event_id", "title", "description", "event_date",
                 "start_time", "location", "category", "last_updated"} :
           k \notin DOMAIN item
    THEN ReturnedNone
    ELSE IF IntOf(item["last_updated"]).raised = "TypeError" THEN Raised
    ELSE IF IntOf(item["last_updated"]).raised = "ValueError" THEN ReturnedNone
    ELSE IF "ttl" \notin DOMAIN item THEN ReturnedNone
    ELSE IF IntOf(item["ttl"]).raised = "TypeError" THEN Raised
    ELSE IF IntOf(item["ttl"]).raised = "ValueError" THEN ReturnedNone
    ELSE Returned(ItemToProcessedEvent(
             [item EXCEPT !["last_updated"] = IntOf(@).value,
                          !["ttl"] = IntOf(@).value]))

\* The loop of get_all_events over its items: the dictionary of the events,
\* unless a conversion raises.
ConvertItems(list) ==
    LET out == [k \in 1..Len(list) |-> ItemToProcessedEventOrNone(list[k])]
        kept == {k \in 1..Len(list) : out[k].kind = "event"}
    IN  IF \E k \in 1..Len(list) : out[k].kind = "raise"
        THEN [raised |-> TRUE, events |-> <<>>]
        ELSE [raised |-> FALSE,
              events |->
                  [id \in {out[k].event.event_id : k \in kept} |->
                      out[CHOOSE k \in kept :
                              /\ out[k].event.event_id = id
                              /\ \A j \in kept :
                                     out[j].event.event_id = id => j <= k].event]]

\* The items of a table in the order of the scan: identity 1 in any kind,
\* identity 2 well-formed or with a ttl that is no number, the others
\* well-formed.
KindsOf(id) ==
    IF id = 1 THEN ItemKinds
    ELSE IF id = 2 THEN {"ok", "ttl_text"} ELSE {"ok"}
RECURSIVE ScannedItems(_)
ScannedItems(id) ==
    IF id > MaxStored THEN {<<>>}
    ELSE LET rest == ScannedItems(id + 1)
         IN  rest \cup {<<StoredItemOfKind(id, kind)>> \o r :
                            kind \in KindsOf(id), r \in rest}

RECURSIVE PagesOf(_, _)
\* A scan that returns the items n at a time.
PagesOf(list, n) ==
    IF Len(list) <= n THEN <<list>>
    ELSE <<SubSeq(list, 1, n)>> \o PagesOf(SubSeq(list, n + 1, Len(list)), n)

\* What the scans of a table return: its items in pages of 1..MaxStored,
\* possibly with an empty last page; every page but the last carries
\* LastEvaluatedKey.
PageLists ==
    UNION {{PagesOf(list, n), PagesOf(list, n) \o << <<>> >>} :
              list \in ScannedItems(1), n \in 1..MaxStored}

\* The fresh lists the tables are reconciled with.
LoadFreshLists ==
    {<<>>,
     <<ProcessedEvent(1, 2)>>,
     <<ProcessedEvent(1, 0), ProcessedEvent(MaxStored + 1, 0)>>}

Scan(page, outcome, error) ==
    [page |-> page, outcome |-> outcome, error |-> error]

\* The three lists of sync_events for a snapshot.
PlanOf(new_events, existing) ==
    LET new_events_dict == NewEventsDict(new_events)
    IN  [events_to_add       |-> EventsToAdd(new_events_dict, existing),
         events_to_update    |-> EventsToUpdate(new_events_dict, existing),
         event_ids_to_delete |-> EventIdsToDelete(new_events_dict, existing)]

\* What the except branch of sync_events returns.
ExceptResult(e) ==
    SyncResult(0, 0, 0, << <<"Error during sync operation", e.msg>> >>)

InitLoad ==
    /\ SyncIdle
    /\ ProcIdle
    /\ FetchIdle
    /\ load_pc = "scan"
    /\ scan_pages \in PageLists
    /\ fresh \in LoadFreshLists
    /\ scan_log = <<>>
    /\ items = <<>>
    /\ snapshot = <<>>
    /\ plan = <<>>
    /\ load_result = <<>>

\* table.scan returns a page with LastEvaluatedKey: its items are kept and
\* the loop goes on.
ScanPageOk ==
    /\ load_pc = "scan"
    /\ Len(scan_log) + 1 < Len(scan_pages)
    /\ items' = items \o scan_pages[Len(scan_log) + 1]
    /\ scan_log' = Append(scan_log, Scan(Len(scan_log) + 1, "ok", NoError))
    /\ UNCHANGED <<syncVars, procVars, fetchVars, load_pc, scan_pages,
                   snapshot, fresh, plan, load_result>>

\* table.scan returns the page without LastEvaluatedKey and every item is
\* converted or skipped: get_all_events returns the dictionary and
\* sync_events makes its plan.
ScanLastPageOk ==
    /\ load_pc = "scan"
    /\ Len(scan_log) + 1 = Len(scan_pages)
    /\ items' = items \o scan_pages[Len(scan_log) + 1]
    /\ scan_log' = Append(scan_log, Scan(Len(scan_log) + 1, "ok", NoError))
    /\ \E converted \in {ConvertItems(items')} :
          /\ ~converted.raised
          /\ snapshot' = converted.events
          /\ plan' = PlanOf(fresh, converted.events)
    /\ load_pc' = "planned"
    /\ UNCHANGED <<syncVars, procVars, fetchVars, scan_pages, fresh,
                   load_result>>

\* table.scan returns the page without LastEvaluatedKey and the conversion
\* of an item raises: the exception leaves get_all_events, which catches
\* ClientError only, and lands in the except branch of sync_events.
ScanLastPageConversionRaises ==
    /\ load_pc = "scan"
    /\ Len(scan_log) + 1 = Len(scan_pages)
    /\ items' = items \o scan_pages[Len(scan_log) + 1]
    /\ scan_log' = Append(scan_log, Scan(Len(scan_log) + 1, "ok", NoError))
    /\ ConvertItems(items').raised
    /\ load_result' = ExceptResult(TypeError)
    /\ load_pc' = "failed"
    /\ UNCHANGED <<syncVars, procVars, fetchVars, scan_pages, snapshot, fresh,
                   plan>>

\* Mutation of ScanPageFail: the pages read so far are taken for the table.
ScanPageFailKeepsPages ==
    /\ load_pc = "scan"
    /\ \E e \in StoreErrors :
          scan_log' = Append(scan_log, Scan(Len(scan_log) + 1, "error", e))
    /\ \E converted \in {ConvertItems(items)} :
          /\ ~converted.raised
          /\ snapshot' = converted.events
          /\ plan' = PlanOf(fresh, converted.events)
    /\ load_pc' = "planned"
    /\ UNCHANGED <<syncVars, procVars, fetchVars, scan_pages, items, fresh,
                   load_result>>

\* table.scan raises, on the first page or a later one: a ClientError is
\* logged and raised again by get_all_events, any other exception leaves
\* it as it is; sync_events returns from its except branch.
ScanPageFail ==
    /\ load_pc = "scan"
    /\ \E e \in StoreErrors :
          /\ scan_log' = Append(scan_log, Scan(Len(scan_log) + 1, "error", e))
          /\ load_result' = ExceptResult(e)
    /\ load_pc' = "failed"
    /\ UNCHANGED <<syncVars, procVars, fetchVars, scan_pages, items, snapshot,
                   fresh, plan>>

NextLoad ==
    \/ ScanPageOk
    \/ ScanLastPageOk
    \/ ScanLastPageConversionRaises
    \/ ScanPageFail

SpecLoad == InitLoad /\ [][NextLoad]_vars

(***************************************************************************)
(* Vocabulary of the properties.                                           *)
(***************************************************************************)
LogHas(op, outcomes) ==
    \E k \in 1..Len(log) : log[k].op = op /\ log[k].outcome \in outcomes

FetchFailed == LogHas("fetch", {"error"})
LoadFailed == LogHas("scan", {"error"})
\* The plan of this cycle has just been computed: the snapshot is loaded
\* and no batch is sent yet.  No later step assigns the three lists.
PlanDone ==
    /\ pc \in {"write", "delete", "result"}
    /\ log[Len(log)].op = "scan"

\* The fields the reconciliation compares, as the documentation lists them.
Comparable(e) ==
    <<e.title, e.description, e.event_date, e.start_time, e.end_time,
      e.location, e.category, e.url, e.ttl>>

FreshIds == EventIds(processed_events)
StoredIds == DOMAIN existing_events
\* The fresh record that is reconciled for an identity: its last occurrence.
LastFresh(id) ==
    processed_events[CHOOSE k \in 1..Len(processed_events) :
        /\ processed_events[k].event_id = id
        /\ \A j \in (k + 1)..Len(processed_events) :
               processed_events[j].event_id /= id]
UnchangedIds ==
    {id \in FreshIds \cap StoredIds :
        Comparable(LastFresh(id)) = Comparable(existing_events[id])}

InsertIds == EventIds(events_to_add)
UpdateIds == EventIds(events_to_update)
DeleteIds == Range(event_ids_to_delete)

\* Identities carried by the calls of one kind the cycle has issued.
IssuedIds(op) ==
    UNION {Range(log[k].ids) : k \in {j \in 1..Len(log) : log[j].op = op}}

Count(b) == IF b THEN 1 ELSE 0

\* C1: the insert, update and delete lists are pairwise disjoint by
\* identity, every identity of fresh or stored lies in exactly one of
\* insert, update, delete, unchanged, and no identity is both put and
\* deleted in one cycle.
C1_PlanPartitionsIdentities ==
    /\ PlanDone =>
          /\ InsertIds \cap UpdateIds = {}
          /\ InsertIds \cap DeleteIds = {}
          /\ UpdateIds \cap DeleteIds = {}
          /\ InsertIds \cup UpdateIds \cup DeleteIds \subseteq FreshIds \cup StoredIds
          /\ \A id \in FreshIds \cup StoredIds :
                Count(id \in InsertIds) + Count(id \in UpdateIds)
                  + Count(id \in DeleteIds) + Count(id \in UnchangedIds) = 1
    /\ pc = "done" => IssuedIds("put") \cap IssuedIds("delete") = {}

\* A finished cycle whose plan inserted, updated and deleted, and which
\* issued puts and deletes.
C1_Witness ==
    /\ pc = "done"
    /\ InsertIds /= {} /\ UpdateIds /= {} /\ DeleteIds /= {}
    /\ IssuedIds("put") /= {} /\ IssuedIds("delete") /= {}

\* C2 as stated: the insert list holds exactly the fresh records whose
\* identity is absent from the snapshot, the delete list exactly the
\* snapshot identities absent from the fresh identities.
C2_AsStated ==
    PlanDone =>
        /\ Range(events_to_add) =
              {processed_events[k] : k \in {j \in 1..Len(processed_events) :
                  processed_events[j].event_id \notin StoredIds}}
        /\ DeleteIds = StoredIds \ FreshIds

\* C2, amended: the insert list holds, once each, the last fresh record of
\* every fresh identity absent from the snapshot; the delete list holds,
\* once each, the snapshot identities absent from the fresh identities (all
\* of them for an empty fresh list, while an empty snapshot inserts every
\* fresh identity).
C2_InsertAndDeleteLists ==
    PlanDone =>
        /\ Range(events_to_add) = {LastFresh(id) : id \in FreshIds \ StoredIds}
        /\ Len(events_to_add) = Cardinality(FreshIds \ StoredIds)
        /\ DeleteIds = StoredIds \ FreshIds
        /\ Len(event_ids_to_delete) = Cardinality(StoredIds \ FreshIds)
        /\ processed_events = <<>> => DeleteIds = StoredIds
        /\ StoredIds = {} => InsertIds = FreshIds

\* A plan that inserts and deletes, from a fresh list that repeats an
\* identity.
C2_Witness ==
    /\ PlanDone
    /\ events_to_add /= <<>>
    /\ event_ids_to_delete /= <<>>
    /\ Len(processed_events) > Cardinality(FreshIds)

\* C3 as stated: the update list holds exactly the fresh records whose
\* identity is in the snapshot and that differ from the stored record in a
\* comparable field.
C3_AsStated ==
    PlanDone =>
        Range(events_to_update) =
            {processed_events[k] : k \in {j \in 1..Len(processed_events) :
                /\ processed_events[j].event_id \in StoredIds
                /\ Comparable(processed_events[j]) /=
                      Comparable(existing_events[processed_events[j].event_id])}}

\* C3, amended: the update list holds, once each, the last fresh record of
\* every identity present in the snapshot whose last fresh record differs
\* from the stored record in title, description, date, start_time,
\* end_time, location, category, url or expires_at; a difference in
\* last_updated alone is no update.
C3_UpdateList ==
    PlanDone =>
        LET changed == {id \in FreshIds \cap StoredIds :
                           Comparable(LastFresh(id)) /=
                               Comparable(existing_events[id])}
        IN  /\ Range(events_to_update) = {LastFresh(id) : id \in changed}
            /\ Len(events_to_update) = Cardinality(changed)

\* A plan that updates one identity and leaves alone another whose fresh
\* record differs from the stored one in last_updated only.
C3_Witness ==
    /\ PlanDone
    /\ events_to_update /= <<>>
    /\ \E id \in UnchangedIds :
          LastFresh(id).last_updated /= existing_events[id].last_updated

\* C4: when the snapshot load fails the cycle is over, no batch write and
\* no batch delete is attempted, and the table is what it was.
C4_LoadFailureLeavesTable ==
    LoadFailed =>
        /\ pc \in {"respond", "done"}
        /\ table = table0
        /\ ~LogHas("put", {"ok", "client_error", "error"})
        /\ ~LogHas("delete", {"ok", "client_error", "error"})

\* A finished cycle whose load failed although the fresh list and the
\* table disagreed.
C4_Witness ==
    /\ pc = "done"
    /\ LoadFailed
    /\ FreshIds \ DOMAIN table /= {}
    /\ DOMAIN table \ FreshIds /= {}

\* C5: when fetch_events raises, lambda_handler returns statusCode 500 with
\* the message and type of the error, and the cycle makes no other call:
\* no normalization, no snapshot load, no write, no delete.
C5_FetchFailureAnswers500 ==
    FetchFailed =>
        /\ pc = "done"
        /\ response.statusCode = 500
        /\ response.error = log[1].error.msg
        /\ response.error_type = log[1].error.type
        /\ Len(log) = 1
        /\ sync_result = NoResult
        /\ table = table0

\* A failed fetch over a table that holds records.
C5_Witness ==
    /\ pc = "done"
    /\ FetchFailed
    /\ table /= <<>>

\* Batch calls of the cycle, by place in the log.
BatchCalls(op) == {k \in 1..Len(log) : log[k].op = op}
FailedCalls(op) == {k \in BatchCalls(op) : log[k].outcome /= "ok"}
\* Number of items the store committed for the calls of one kind.
Committed(op) ==
    Cardinality(UNION {Range(log[k].ids) :
                          k \in {j \in BatchCalls(op) : log[j].outcome = "ok"}})
NumChunks(list) == (Len(list) + BATCH_SIZE - 1) \div BATCH_SIZE
PlannedList(op) == IF op = "put" THEN WriteList ELSE event_ids_to_delete

\* C6: in batch_write_events and batch_delete_events, when the store call
\* of chunk k of n fails, in whatever way, chunks k+1..n are still attempted
\* and what chunks 1..k-1 committed stays committed.
C6_AsStated ==
    pc = "done" =>
        \A op \in {"put", "delete"} : \A k \in FailedCalls(op) :
            /\ log[k].chunk < NumChunks(PlannedList(op)) =>
                  \E j \in BatchCalls(op) :
                      j > k /\ log[j].chunk = log[k].chunk + 1
            /\ \A j \in BatchCalls(op) :
                  (j < k /\ log[j].outcome = "ok") =>
                      \A id \in Range(log[j].ids) :
                          (id \in DOMAIN table) = (op = "put")

\* C7: batch_write_events and batch_delete_events return the number of
\* items committed to the store: a chunk whose store call fails adds 0 to
\* the count (the counts reach the caller as added + updated and deleted).
C7_AsStated ==
    (pc = "done" /\ ~LogHas("put", {"error"}) /\ ~LogHas("delete", {"error"})
        /\ ~LoadFailed /\ ~FetchFailed) =>
        /\ \A op \in {"put", "delete"} : \A k \in FailedCalls(op) :
              log[k].counted = 0
        /\ sync_result.added + sync_result.updated = Committed("put")
        /\ sync_result.deleted = Committed("delete")

\* C8: every write or delete chunk that fails adds exactly one message to
\* the errors of the returned SyncResult, so errors is non-empty whenever a
\* chunk failed.
C8_AsStated ==
    (pc = "done" /\ ~FetchFailed) =>
        Len(sync_result.errors) =
            Cardinality(FailedCalls("put")) + Cardinality(FailedCalls("delete"))
            + Count(LoadFailed)

\* C9: a failure while the write chunks are applied does not abort the rest
\* of the plan: the delete list is still attempted, and the counts of the
\* returned SyncResult are those of the operations that succeeded.
C9_AsStated ==
    (pc = "done" /\ FailedCalls("put") /= {}) =>
        /\ event_ids_to_delete /= <<>> => BatchCalls("delete") /= {}
        /\ sync_result.added + sync_result.updated = Committed("put")
        /\ sync_result.deleted = Committed("delete")

\* C10: a snapshot load failure is reported by lambda_handler as a failed
\* outcome, statusCode 500, never as 200 'Sync completed successfully'.
C10_AsStated ==
    (pc = "done" /\ LoadFailed) =>
        /\ response.statusCode = 500
        /\ response.message /= "Sync completed successfully"

\* sync_events ended in its except branch: a store call raised an error
\* that is no ClientError, or the snapshot load failed.
SyncFailed == LogHas("scan", {"error"}) \/ LogHas("put", {"error"})
                  \/ LogHas("delete", {"error"})
\* The plan was computed and every chunk of it was committed.
NoChunkFailed ==
    /\ ~FetchFailed
    /\ ~LoadFailed
    /\ FailedCalls("put") = {}
    /\ FailedCalls("delete") = {}

RECURSIVE CountedUpTo(_, _)
\* Sum of the counts of the first n calls of the log that are of kind op.
CountedUpTo(op, n) ==
    IF n = 0 THEN 0
    ELSE CountedUpTo(op, n - 1)
           + (IF log[n].op = op THEN log[n].counted ELSE 0)
\* The count a batch function returns: the items counted over its chunks.
ReturnedCount(op) == CountedUpTo(op, Len(log))

\* C11: when the sync step ends in its error outcome (SyncResult(0, 0, 0,
\* [error]) after an exception inside sync_events), no stored event was
\* written, altered or deleted during the cycle.
C11_AsStated ==
    (pc = "done" /\ SyncFailed) =>
        /\ sync_result.added = 0 /\ sync_result.updated = 0
        /\ sync_result.deleted = 0 /\ Len(sync_result.errors) = 1
        /\ table = table0

\* C12: the returned SyncResult has added = min(successfulWrites, length
\* of the insert list), updated = successfulWrites - added and deleted =
\* successfulDeletes, the counts returned by the batch write over the
\* insert-then-update list and by the batch delete.
C12_AsStated ==
    (pc = "done" /\ ~FetchFailed /\ ~LoadFailed /\ ~LogHas("put", {"error"})) =>
        LET successfulWrites == ReturnedCount("put")
        IN  /\ sync_result.added = Min(successfulWrites, Len(events_to_add))
            /\ sync_result.updated = successfulWrites - sync_result.added
            /\ ~LogHas("delete", {"error"}) =>
                  sync_result.deleted = ReturnedCount("delete")

\* C13: after a cycle whose load succeeded and in which no chunk failed,
\* the identities of the store are the fresh identities and every stored
\* record agrees with the fresh record of its identity on every comparable
\* field.
C13_AsStated ==
    (pc = "done" /\ NoChunkFailed) =>
        /\ DOMAIN table = FreshIds
        /\ \A id \in FreshIds :
              Comparable(ItemToProcessedEvent(table[id])) =
                  Comparable(LastFresh(id))

\* C14: when no chunk fails, sync_events reports added, updated and
\* deleted as the lengths of the insert, update and delete lists, with no
\* error: 1/0/0 for one new event, 0/1/0 for one changed, 0/0/1 for one
\* stale, 1/1/1 for one of each.
C14_CountsWithoutFailure ==
    (pc = "done" /\ NoChunkFailed) =>
        sync_result = SyncResult(Len(events_to_add), Len(events_to_update),
                                 Len(event_ids_to_delete), <<>>)

\* A finished cycle without failure that added one event, updated one and
\* deleted one.
C14_Witness ==
    /\ pc = "done"
    /\ NoChunkFailed
    /\ Len(events_to_add) = 1 /\ Len(events_to_update) = 1
    /\ Len(event_ids_to_delete) = 1
    /\ sync_result = SyncResult(1, 1, 1, <<>>)

\* C15: reconciling a fresh set against a snapshot that holds exactly the
\* same records gives an empty insert list, an empty update list and an
\* empty delete list.
C15_SameRecordsEmptyPlan ==
    (/\ PlanDone
     /\ FreshIds = StoredIds
     /\ \A k \in 1..Len(processed_events) :
           processed_events[k] = existing_events[processed_events[k].event_id]) =>
        /\ events_to_add = <<>>
        /\ events_to_update = <<>>
        /\ event_ids_to_delete = <<>>

\* A plan over two fresh records that are the two records of the snapshot.
C15_Witness ==
    /\ PlanDone
    /\ Cardinality(FreshIds) >= 2
    /\ FreshIds = StoredIds
    /\ \A k \in 1..Len(processed_events) :
          processed_events[k] = existing_events[processed_events[k].event_id]
    /\ events_to_add = <<>> /\ events_to_update = <<>>
    /\ event_ids_to_delete = <<>>

\* C16: for every list of records, those with end_time or url None or ''
\* included, a sync of the list against the table that batch_write_events
\* wrote from that list reports 0 added, 0 updated, 0 deleted.
C16_AsStated ==
    (/\ pc = "done"
     /\ NoChunkFailed
     /\ table0 = [id \in FreshIds |-> ProcessedEventToItem(LastFresh(id))]) =>
        sync_result = SyncResult(0, 0, 0, <<>>)

(***************************************************************************)
(* Properties of the processor.                                            *)
(***************************************************************************)
\* A list is being processed, or has been.
Processing == proc_pc \in {"loop", "done"} /\ id_args = <<>>
\* process_events has returned.
Processed == proc_pc = "done" /\ id_args = <<>>
\* generate_event_id was called twice.
IdsGenerated == proc_pc = "done" /\ id_args /= <<>>

\* A required field that is missing, empty or whitespace only.
Blank(s) == s = NoStr \/ \A k \in 1..Len(s) : IsSpace(s[k])

\* Title, date and start of a raw record after normalization.
NormalizedTriple(event) ==
    <<Prefix(event.title, MAX_TITLE_LENGTH), NormalizeDate(event.date),
      NormalizeTime(event.start_time)>>

\* The raw record behind the j-th record of the output.
SourceOf(j) == proc_input[proc_sources[j]]

HasPipe(s) == \E k \in 1..Len(s) : s[k] = "|"

\* C17: the identity is a function of title, date and start_time after
\* normalization only: two raw records that agree on these get the same
\* event_id, whatever their description, location, category, url, end_time
\* and the time of processing.
C17_IdentityOfNormalizedTriple ==
    Processed =>
        \A b \in 1..Len(proc_output) : \A a \in 1..(b - 1) :
            NormalizedTriple(SourceOf(a)) = NormalizedTriple(SourceOf(b)) =>
                proc_output[a].event_id = proc_output[b].event_id

\* Two records of one output with the same identity, from raw records that
\* write the date and the start differently and differ in description,
\* location, category, url and end_time, processed at different times.
C17_Witness ==
    /\ Processed
    /\ \E a, b \in 1..Len(proc_output) :
          /\ proc_output[a].event_id = proc_output[b].event_id
          /\ SourceOf(a).date /= SourceOf(b).date
          /\ SourceOf(a).start_time /= SourceOf(b).start_time
          /\ proc_output[a].description /= proc_output[b].description
          /\ proc_output[a].location /= proc_output[b].location
          /\ proc_output[a].category /= proc_output[b].category
          /\ proc_output[a].url /= proc_output[b].url
          /\ proc_output[a].end_time /= proc_output[b].end_time
          /\ proc_output[a].last_updated /= proc_output[b].last_updated

\* C18 as stated: any two triples passed to generate_event_id that differ
\* in a component give different hashed strings, hence different
\* identities.
C18_AsStated ==
    (IdsGenerated /\ id_args[1] /= id_args[2]) =>
        id_results[1] /= id_results[2]

\* C18, amended: two triples that differ in a component and whose date and
\* start_time hold no '|' give different hashed strings; so do any two
\* records of the output of process_events that differ in title, date or
\* start_time.
C18_DistinctTriplesDistinctIds ==
    /\ (/\ IdsGenerated
        /\ id_args[1] /= id_args[2]
        /\ \A k \in 1..2 : ~HasPipe(id_args[k][2]) /\ ~HasPipe(id_args[k][3])) =>
          id_results[1] /= id_results[2]
    /\ Processing =>
          \A a, b \in 1..Len(proc_output) :
              <<proc_output[a].title, proc_output[a].event_date,
                proc_output[a].start_time>> /=
              <<proc_output[b].title, proc_output[b].event_date,
                proc_output[b].start_time>> =>
                  proc_output[a].event_id /= proc_output[b].event_id

\* Two calls whose titles differ, one of them holding '|', with dates and
\* starts free of it, that returned different identities.
C18_Witness ==
    /\ IdsGenerated
    /\ HasPipe(id_args[1][1])
    /\ id_args[1][1] /= id_args[2][1]
    /\ \A k \in 1..2 : ~HasPipe(id_args[k][2]) /\ ~HasPipe(id_args[k][3])
    /\ id_args[1][2] /= <<>> /\ id_args[1][3] /= <<>>
    /\ id_results[1] /= id_results[2]

\* C19: a raw record whose title, date or start_time is missing, empty or
\* whitespace only is rejected: it is not in the output.
C19_BlankRequiredFieldRejected ==
    Processing =>
        \A k \in 1..proc_index :
            (\/ Blank(proc_input[k].title)
             \/ Blank(proc_input[k].date)
             \/ Blank(proc_input[k].start_time)) =>
                k \notin Range(proc_sources)

\* A processed list with a record whose title is whitespace only, beside a
\* date and a start that normalize, which is not in the output although
\* another record is.
C19_Witness ==
    /\ Processed
    /\ proc_output /= <<>>
    /\ \E k \in 1..Len(proc_input) :
          /\ proc_input[k].title /= <<>>
          /\ proc_input[k].title /= NoStr
          /\ Blank(proc_input[k].title)
          /\ NormalizeDate(proc_input[k].date) /= NoStr
          /\ NormalizeTime(proc_input[k].start_time) /= NoStr
          /\ k \notin Range(proc_sources)

\* A record is valid when its required fields are not blank, its date and
\* its start normalize, and its expiry can be computed.
ValidRecord(event) ==
    /\ ~Blank(event.title) /\ ~Blank(event.date) /\ ~Blank(event.start_time)
    /\ NormalizeDate(event.date) /= NoStr
    /\ NormalizeTime(event.start_time) /= NoStr
    /\ ~CalculateTtl(NormalizeDate(event.date), utc_offset).raised

\* out is the canonical form of the raw record.
CanonicalOf(event, out) ==
    /\ out.title = Prefix(event.title, MAX_TITLE_LENGTH)
    /\ out.description = Prefix(event.description, MAX_DESCRIPTION_LENGTH)
    /\ out.event_date = NormalizeDate(event.date)
    /\ out.start_time = NormalizeTime(event.start_time)
    /\ out.end_time = IF Truthy(event.end_time)
                      THEN NormalizeTime(event.end_time) ELSE NoStr
    /\ out.location = event.location
    /\ out.category = event.category
    /\ out.url = event.url
    /\ out.event_id = GenerateEventId(out.title, out.event_date, out.start_time)
    /\ out.ttl = CalculateTtl(out.event_date, utc_offset).ttl
    /\ out.last_updated \in Clock

FourDigits(n) ==
    <<Digits[((n \div 1000) % 10) + 1], Digits[((n \div 100) % 10) + 1],
      Digits[((n \div 10) % 10) + 1], Digits[(n % 10) + 1]>>
IsoDate(dt) ==
    FourDigits(dt.year) \o <<"-">> \o TwoDigits(dt.month) \o <<"-">>
        \o TwoDigits(dt.day)
IsIsoDateForm(s) ==
    /\ s /= NoStr
    /\ Len(s) = 10
    /\ \A k \in 1..10 : IF k \in {5, 8} THEN s[k] = "-" ELSE IsDigit(s[k])

\* The formats of a list that read the string, and the first of them.
ParsingFormats(s, formats) ==
    {k \in 1..Len(formats) : Strptime(s, formats[k]) /= NoDatetime}
FirstParsing(s, formats) ==
    CHOOSE k \in ParsingFormats(s, formats) :
        \A m \in ParsingFormats(s, formats) : k <= m

\* C21 as stated: the date of a raw record is read by the first of the seven
\* formats, in their order, that parses it (so NN/NN/YYYY is month/day when
\* that is a date and day/month otherwise), the result is the date of that
\* reading written as YYYY-MM-DD, and a record whose date no format parses
\* is rejected.
C21_AsStated ==
    Processing =>
        \A k \in 1..proc_index :
            Truthy(proc_input[k].date) =>
                LET s == Strip(proc_input[k].date)
                    normalized == NormalizeDate(proc_input[k].date)
                IN  IF ParsingFormats(s, date_formats) = {}
                    THEN k \notin Range(proc_sources)
                    ELSE /\ normalized =
                              IsoDate(Strptime(s,
                                  date_formats[FirstParsing(s, date_formats)]))
                         /\ IsIsoDateForm(normalized)
                         /\ \A j \in 1..Len(proc_sources) :
                               proc_sources[j] = k =>
                                   proc_output[j].event_date = normalized

\* The same for dates of the years from 1000 on.
DateReadInOrder ==
    Processing =>
        \A k \in 1..proc_index :
            Truthy(proc_input[k].date) =>
                LET s == Strip(proc_input[k].date)
                    normalized == NormalizeDate(proc_input[k].date)
                IN  IF ParsingFormats(s, date_formats) = {}
                    THEN k \notin Range(proc_sources)
                    ELSE LET dt == Strptime(s,
                                 date_formats[FirstParsing(s, date_formats)])
                         IN  dt.year >= 1000 =>
                                /\ normalized = IsoDate(dt)
                                /\ IsIsoDateForm(normalized)

\* The form HH:MM of the 24-hour clock.
IsHHMM(s) ==
    /\ s /= NoStr
    /\ Len(s) = 5
    /\ IsDigit(s[1]) /\ IsDigit(s[2]) /\ s[3] = ":"
    /\ IsDigit(s[4]) /\ IsDigit(s[5])
    /\ 10 * DigitVal(s[1]) + DigitVal(s[2]) \in 0..23
    /\ 10 * DigitVal(s[4]) + DigitVal(s[5]) \in 0..59

\* No time format reads the string.
Unparseable(time_str) ==
    ParsingFormats(Strip(time_str), time_formats) = {}

\* C22: a record whose start_time no format reads is rejected; a record
\* whose end_time is present and unreadable is not rejected for it, and is
\* emitted without end_time; every emitted start_time is HH:MM and every
\* emitted end_time is HH:MM or absent.
C22_TimesNormalizedOrAbsent ==
    Processing =>
        /\ \A k \in 1..proc_index :
              /\ (Truthy(proc_input[k].start_time)
                     /\ Unparseable(proc_input[k].start_time)) =>
                    k \notin Range(proc_sources)
              /\ ValidRecord(proc_input[k]) => k \in Range(proc_sources)
        /\ \A j \in 1..Len(proc_output) :
              /\ IsHHMM(proc_output[j].start_time)
              /\ proc_output[j].end_time = NoStr \/ IsHHMM(proc_output[j].end_time)
              /\ (Truthy(SourceOf(j).end_time)
                     /\ Unparseable(SourceOf(j).end_time)) =>
                    proc_output[j].end_time = NoStr
              /\ (Truthy(SourceOf(j).end_time)
                     /\ ~Unparseable(SourceOf(j).end_time)) =>
                    proc_output[j].end_time /= NoStr

\* A processed list of two records: the one whose start_time is '25:00' is
\* rejected, the one whose end_time is 'late' is emitted without end_time.
C22_Witness ==
    /\ Processed
    /\ Len(proc_input) = 2
    /\ proc_input[1].start_time = <<"2", "5", ":", "0", "0">>
    /\ proc_input[2].end_time = <<"l", "a", "t", "e">>
    /\ proc_sources = <<2>>
    /\ proc_output[1].end_time = NoStr
    /\ proc_output[1].start_time = <<"1", "9", ":", "0", "0">>

\* s is the first characters of t.
IsPrefix(s, t) == Len(s) <= Len(t) /\ SubSeq(t, 1, Len(s)) = s

\* C23: every emitted title has at most 200 characters and every emitted
\* description at most 2000; each is a prefix of the raw value, and the raw
\* value itself when that is within the limit; a record is never rejected
\* for the length of its title or description.
C23_TruncationToPrefix ==
    Processing =>
        /\ \A j \in 1..Len(proc_output) :
              /\ Len(proc_output[j].title) <= MAX_TITLE_LENGTH
              /\ Len(proc_output[j].description) <= MAX_DESCRIPTION_LENGTH
              /\ IsPrefix(proc_output[j].title, SourceOf(j).title)
              /\ IsPrefix(proc_output[j].description, SourceOf(j).description)
              /\ Len(SourceOf(j).title) <= MAX_TITLE_LENGTH =>
                    proc_output[j].title = SourceOf(j).title
              /\ Len(SourceOf(j).description) <= MAX_DESCRIPTION_LENGTH =>
                    proc_output[j].description = SourceOf(j).description
        /\ \A k \in 1..proc_index :
              ValidRecord(proc_input[k]) => k \in Range(proc_sources)

\* An emitted record whose raw title has 201 characters and whose raw
\* description has 2001: 200 and 2000 of them are kept.
C23_Witness ==
    /\ Processed
    /\ \E j \in 1..Len(proc_output) :
          /\ Len(SourceOf(j).title) = MAX_TITLE_LENGTH + 1
          /\ Len(SourceOf(j).description) = MAX_DESCRIPTION_LENGTH + 1
          /\ Len(proc_output[j].title) = MAX_TITLE_LENGTH
          /\ Len(proc_output[j].description) = MAX_DESCRIPTION_LENGTH

\* The timestamp of 00:00:00 UTC on the day TTL_DAYS days after a date
\* written as YYYY-MM-DD.
UtcMidnightAfter(event_date) ==
    LET date_obj == Strptime(event_date, date_formats[1])
    IN  (DaysFromCivil(date_obj.year, date_obj.month, date_obj.day) + TTL_DAYS)
            * 86400

\* C24 as stated: the ttl of every emitted record is the timestamp of
\* 00:00:00 UTC on the day 90 days after its event_date, whatever the
\* timezone of the process and whatever last_updated.
C24_AsStated ==
    Processing =>
        \A j \in 1..Len(proc_output) :
            proc_output[j].ttl = UtcMidnightAfter(proc_output[j].event_date)

\* The ttl is the timestamp of local midnight: it is the stated one in a
\* process whose local time is UTC, and does not depend on last_updated.
TtlIsLocalMidnight ==
    Processing =>
        \A j \in 1..Len(proc_output) :
            proc_output[j].ttl =
                UtcMidnightAfter(proc_output[j].event_date) - utc_offset

(***************************************************************************)
(* Properties of the batches, the phases and the counts.                   *)
(***************************************************************************)
\* The calls of one kind, in the order they were made.
CallsOf(op) == SelectSeq(log, LAMBDA c : c.op = op)
\* The identities a batch function was given.
PlannedIds(op) == IF op = "put" THEN IdsOf(WriteList) ELSE event_ids_to_delete
\* The n-th chunk of a partition into chunks of BATCH_SIZE.
ChunkOf(list, n) ==
    SubSeq(list, (n - 1) * BATCH_SIZE + 1, Min(n * BATCH_SIZE, Len(list)))
RECURSIVE Concatenated(_, _)
\* The identities of the first n calls, one after the other.
Concatenated(calls, n) ==
    IF n = 0 THEN <<>> ELSE Concatenated(calls, n - 1) \o calls[n].ids
\* The plan of the cycle was made.
Planned ==
    /\ pc \in {"write", "delete", "result", "respond", "done"}
    /\ ~FetchFailed
    /\ ~LoadFailed

\* C27: a batch function cuts its list into consecutive chunks of exactly
\* 25 items, but for a last chunk of 1 to 25: the chunks, in the order they
\* are sent, put together give the list, there are ceil(n / 25) of them, and
\* when no chunk fails every item is carried by exactly one chunk and the
\* count returned is n.
C27_ChunksPartitionTheList ==
    Planned =>
        \A op \in {"put", "delete"} :
            LET calls == CallsOf(op)
                ids == PlannedIds(op)
            IN  /\ Len(calls) <= NumChunks(ids)
                /\ \A n \in 1..Len(calls) :
                      /\ calls[n].chunk = n
                      /\ calls[n].ids = ChunkOf(ids, n)
                      /\ Len(calls[n].ids) \in 1..BATCH_SIZE
                      /\ n < NumChunks(ids) => Len(calls[n].ids) = BATCH_SIZE
                /\ (pc = "done" /\ ~SyncFailed) =>
                      /\ Len(calls) = NumChunks(ids)
                      /\ Concatenated(calls, Len(calls)) = ids
                /\ (pc = "done" /\ NoChunkFailed) =>
                      /\ \A k \in 1..Len(ids) :
                            Cardinality({n \in 1..Len(calls) :
                                \E m \in 1..Len(calls[n].ids) :
                                    (n - 1) * BATCH_SIZE + m = k
                                        /\ calls[n].ids[m] = ids[k]}) = 1
                      /\ ReturnedCount(op) = Len(ids)
                      /\ Committed(op) = Len(ids)

\* A finished cycle without failure whose 51 writes went in three chunks of
\* 25, 25 and 1, followed by a delete.
C27_Witness ==
    /\ pc = "done"
    /\ NoChunkFailed
    /\ Len(WriteList) = 2 * BATCH_SIZE + 1
    /\ Len(CallsOf("put")) = 3
    /\ Len(CallsOf("put")[1].ids) = BATCH_SIZE
    /\ Len(CallsOf("put")[3].ids) = 1
    /\ Len(CallsOf("delete")) = 1
    /\ sync_result.added + sync_result.updated = 2 * BATCH_SIZE + 1

\* Place of a collaborator call in the order of the phases.
PhaseOf(op) ==
    CASE op = "fetch" -> 1 [] op = "process" -> 2 [] op = "scan" -> 3
      [] op = "put" -> 4 [] op = "delete" -> 5

\* C28: the calls of a cycle follow the order fetch, normalize, load, write,
\* delete; fetch, normalize and load are called at most once and each batch
\* function makes one pass over its list; nothing is put or deleted unless
\* the load has returned the snapshot; the cycle ends with exactly one
\* answer, success (200) or failure (500), given at its end only.
C28_PhasesInOrder ==
    /\ \A a, b \in 1..Len(log) :
          a < b =>
              /\ PhaseOf(log[a].op) <= PhaseOf(log[b].op)
              /\ PhaseOf(log[a].op) = PhaseOf(log[b].op) =>
                    /\ log[a].op \in {"put", "delete"}
                    /\ log[a].chunk < log[b].chunk
    /\ \A b \in 1..Len(log) :
          log[b].op \in {"put", "delete"} =>
              /\ \E a \in 1..(b - 1) : log[a].op = "scan" /\ log[a].outcome = "ok"
              /\ \E a \in 1..(b - 1) : log[a].op = "fetch" /\ log[a].outcome = "ok"
              /\ \E a \in 1..(b - 1) : log[a].op = "process"
    /\ pc \in {"write", "delete", "result"} => LogHas("scan", {"ok"})
    /\ pc = "done" <=> response /= NoResponse
    /\ pc = "done" => response.statusCode \in {200, 500}
    /\ pc = "done" =>
          (response.statusCode = 200 <=> sync_result /= NoResult)
    /\ pc /= "done" /\ pc /= "respond" => sync_result = NoResult

\* A finished cycle that went through every phase: fetch, normalize, load,
\* two write chunks and a delete chunk, and answered 200.
C28_Witness ==
    /\ pc = "done"
    /\ response.statusCode = 200
    /\ Len(log) = 6
    /\ [k \in 1..6 |-> log[k].op] =
          <<"fetch", "process", "scan", "put", "put", "delete">>

\* C30 as stated: whatever chunks fail, the returned counts satisfy
\* 0 <= added <= |insert list|, 0 <= updated <= |update list|,
\* 0 <= deleted <= |delete list|, and added + updated is the number of
\* writes counted as successful.
C30_AsStated ==
    (pc = "done" /\ ~FetchFailed) =>
        /\ sync_result.added \in 0..Len(events_to_add)
        /\ sync_result.updated \in 0..Len(events_to_update)
        /\ sync_result.deleted \in 0..Len(event_ids_to_delete)
        /\ sync_result.added + sync_result.updated = ReturnedCount("put")

\* The same when sync_events did not end in its except branch; the bounds
\* hold in every case.
CountsWithinPlan ==
    (pc = "done" /\ ~FetchFailed) =>
        /\ sync_result.added \in 0..Len(events_to_add)
        /\ sync_result.updated \in 0..Len(events_to_update)
        /\ sync_result.deleted \in 0..Len(event_ids_to_delete)
        /\ ~SyncFailed =>
              /\ sync_result.added + sync_result.updated = ReturnedCount("put")
              /\ sync_result.deleted = ReturnedCount("delete")

(***************************************************************************)
(* Properties of the fetch and of the load.                                *)
(***************************************************************************)
Failures == {k \in 1..Len(http_log) : http_log[k].outcome = "error"}

\* C25: a fetch makes at most 3 requests; it returns the text of the first
\* request that succeeds and makes no request after it; it sleeps 1 second
\* after the first failed request and 2 seconds after the second; after the
\* third failed request it raises the error of that request and does not
\* sleep again.
C25_ThreeAttemptsWithBackoff ==
    /\ Len(http_log) <= 3
    /\ \A k \in 1..Len(http_log) :
          http_log[k].outcome = "ok" =>
              /\ k = Len(http_log)
              /\ fetch_pc = "done"
              /\ fetch_outcome = [kind |-> "returned", text |-> http_log[k].text]
    /\ sleeps = SubSeq(<<1, 2>>, 1, Min(Cardinality(Failures), 2))
    /\ Cardinality(Failures) = 3 =>
          /\ fetch_pc = "done"
          /\ fetch_outcome = [kind |-> "raised", error |-> http_log[3].error]
    /\ (fetch_pc = "done" /\ fetch_outcome.kind = "raised") =>
          Cardinality(Failures) = 3
    /\ fetch_pc = "request" =>
          /\ Len(http_log) < 3
          /\ Failures = 1..Len(http_log)
          /\ fetch_outcome = <<>>

\* Three failed requests with three kinds of error: the fetch slept 1 and 2
\* seconds and raised the last error.
C25_Witness ==
    /\ fetch_pc = "done"
    /\ Len(http_log) = 3
    /\ http_log[1].error.type = "ConnectionError"
    /\ http_log[2].error.type = "HTTPError"
    /\ http_log[3].error.type = "Timeout"
    /\ sleeps = <<1, 2>>
    /\ fetch_outcome.kind = "raised"
    /\ fetch_outcome.error.type = "Timeout"

\* A fetch that failed twice and returned the text of its third request.
FetchRecovered ==
    /\ fetch_pc = "done"
    /\ Len(http_log) = 3
    /\ sleeps = <<1, 2>>
    /\ fetch_outcome.kind = "returned"

\* The items of every page of the table, and those among them that
\* _item_to_processed_event converts.
RECURSIVE ItemsUpTo(_)
ItemsUpTo(n) == IF n = 0 THEN <<>> ELSE ItemsUpTo(n - 1) \o scan_pages[n]
Deserializable(item) == ItemToProcessedEventOrNone(item).kind = "event"
Convertible(item) ==
    /\ \A k \in {"event_id", "title", "description", "event_date",
                 "start_time", "location", "category", "last_updated", "ttl"} :
          k \in DOMAIN item
    /\ item["last_updated"].numeric
    /\ item["ttl"].numeric
\* Every scan of the load returned.
ScansReturned ==
    /\ load_pc \in {"planned", "failed"}
    /\ \A k \in 1..Len(scan_log) : scan_log[k].outcome = "ok"
\* The snapshot holds exactly the given items, converted.
SnapshotOf(list) ==
    /\ DOMAIN snapshot = {list[k]["event_id"] : k \in 1..Len(list)}
    /\ \A k \in 1..Len(list) :
          snapshot[list[k]["event_id"]] =
              ItemToProcessedEventOrNone(list[k]).event

\* C26 as stated: an item that cannot be deserialized, because a required
\* attribute is missing or last_updated or ttl does not convert to an
\* integer, is skipped and never makes the load fail: when every scan
\* returns, get_all_events returns every other item.
C26_AsStated ==
    ScansReturned =>
        /\ load_pc = "planned"
        /\ SnapshotOf(SelectSeq(ItemsUpTo(Len(scan_pages)), Convertible))

\* The same for tables in which no last_updated and no ttl of an item with
\* the attributes before it is None.
MalformedItemsSkipped ==
    (/\ ScansReturned
     /\ \A k \in 1..Len(ItemsUpTo(Len(scan_pages))) :
           ItemToProcessedEventOrNone(ItemsUpTo(Len(scan_pages))[k]).kind
               /= "raise") =>
        /\ load_pc = "planned"
        /\ SnapshotOf(SelectSeq(ItemsUpTo(Len(scan_pages)), Convertible))

\* C29: the snapshot sync_events works on is whole: get_all_events returns
\* only after the page without continuation key, with the deserializable
\* items of every page; when the scan of any page fails, the load fails,
\* no snapshot is returned and no plan is made, so a plan is only made from
\* the whole table.
C29_SnapshotIsWhole ==
    /\ load_pc = "planned" =>
          /\ Len(scan_log) = Len(scan_pages)
          /\ \A k \in 1..Len(scan_log) :
                scan_log[k] = Scan(k, "ok", NoError)
          /\ items = ItemsUpTo(Len(scan_pages))
          /\ SnapshotOf(SelectSeq(ItemsUpTo(Len(scan_pages)), Deserializable))
          /\ plan = PlanOf(fresh, snapshot)
    /\ (\E k \in 1..Len(scan_log) : scan_log[k].outcome /= "ok") =>
          /\ load_pc = "failed"
          /\ scan_log[Len(scan_log)].outcome /= "ok"
          /\ load_result = ExceptResult(scan_log[Len(scan_log)].error)
    /\ load_pc /= "planned" => snapshot = <<>> /\ plan = <<>>
    /\ load_pc = "scan" =>
          /\ Len(scan_log) < Len(scan_pages)
          /\ items = ItemsUpTo(Len(scan_log))

\* A table read in three pages, one of them with an item that is skipped:
\* the snapshot holds the two other items and the plan deletes one of them.
C29_Witness ==
    /\ load_pc = "planned"
    /\ Len(scan_pages) = 3
    /\ Len(items) = 3
    /\ DOMAIN snapshot = {2, 3}
    /\ plan.event_ids_to_delete = <<2, 3>>

\* A load that failed on its third scan after two pages were read.
LoadFailedOnLaterPage ==
    /\ load_pc = "failed"
    /\ Len(scan_log) = 3
    /\ items /= <<>>
    /\ snapshot = <<>>
    /\ plan = <<>>

(***************************************************************************)
(* Properties of the calls a cycle issues.                                 *)
(***************************************************************************)
\* C31: a stored record whose identity is fresh and whose comparable fields
\* are those of the fresh record is left alone: no put and no delete names
\* it and its item, last_updated included, stays as it was; a cycle whose
\* plan is empty issues no put and no delete.
C31_UnchangedRecordsUntouched ==
    /\ \A id \in UnchangedIds :
          /\ id \notin IssuedIds("put")
          /\ id \notin IssuedIds("delete")
          /\ id \in DOMAIN table
          /\ table[id] = table0[id]
    /\ (/\ Planned
        /\ events_to_add = <<>>
        /\ events_to_update = <<>>
        /\ event_ids_to_delete = <<>>) =>
          /\ BatchCalls("put") = {}
          /\ BatchCalls("delete") = {}
          /\ table = table0

\* A finished cycle that updated one record and deleted another, and left a
\* third alone whose fresh record differs in last_updated only.
C31_Witness ==
    /\ pc = "done"
    /\ NoChunkFailed
    /\ IssuedIds("put") /= {}
    /\ IssuedIds("delete") /= {}
    /\ \E id \in UnchangedIds :
          /\ LastFresh(id).last_updated /= table0[id]["last_updated"]
          /\ table[id]["last_updated"] = table0[id]["last_updated"]

\* C32: every put carries the fresh record of an identity of the insert or
\* update list, and every delete names an identity of the snapshot that is
\* not fresh: what the store holds for a put identity is the item of its
\* fresh record, and no fresh identity is deleted.
C32_OnlyPlannedMutations ==
    /\ IssuedIds("put") \subseteq (InsertIds \cup UpdateIds)
    /\ IssuedIds("put") \subseteq FreshIds
    /\ IssuedIds("delete") \subseteq (StoredIds \ FreshIds)
    /\ IssuedIds("delete") \subseteq DOMAIN table0
    /\ \A k \in BatchCalls("put") :
          log[k].outcome = "ok" =>
              \A id \in Range(log[k].ids) :
                  /\ id \in DOMAIN table
                  /\ table[id] = ProcessedEventToItem(LastFresh(id))
    /\ \A id \in DOMAIN table :
          \/ id \in DOMAIN table0 /\ table[id] = table0[id]
          \/ id \in FreshIds /\ table[id] = ProcessedEventToItem(LastFresh(id))
    /\ \A id \in FreshIds \cap DOMAIN table0 : id \in DOMAIN table

\* A finished cycle that put a changed record over the stored one and a new
\* record beside it, and deleted a stale one.
C32_Witness ==
    /\ pc = "done"
    /\ NoChunkFailed
    /\ \E a \in InsertIds, u \in UpdateIds, d \in DeleteIds :
          /\ a \notin DOMAIN table0
          /\ table[a] = ProcessedEventToItem(LastFresh(a))
          /\ table[u] /= table0[u]
          /\ table[u] = ProcessedEventToItem(LastFresh(u))
          /\ d \notin DOMAIN table

\* The fetch returned and none of its records is valid.
NoValidRecord ==
    /\ pc \notin {"fetch", "process"}
    /\ ~FetchFailed
    /\ \A k \in 1..Len(raw_events) : ~raw_events[k].valid

\* C33: when the fetch returns no valid record, the sync still runs, with
\* an empty fresh list: nothing is inserted or updated, the delete list is
\* the whole snapshot, the answer is 200, and when no store call fails the
\* table ends empty with deleted = the size of the snapshot.
C33_EmptyFetchDeletesAll ==
    NoValidRecord =>
        /\ processed_events = <<>>
        /\ Planned =>
              /\ events_to_add = <<>>
              /\ events_to_update = <<>>
              /\ Range(event_ids_to_delete) = StoredIds
              /\ StoredIds = DOMAIN table0
        /\ pc = "done" =>
              /\ LogHas("scan", {"ok", "error"})
              /\ response.statusCode = 200
              /\ response.statistics.valid_events_processed = 0
        /\ (pc = "done" /\ NoChunkFailed) =>
              /\ table = <<>>
              /\ sync_result.deleted = Cardinality(DOMAIN table0)
              /\ IssuedIds("delete") = DOMAIN table0

\* A finished cycle whose only raw record was rejected and which deleted
\* the three records of the table.
C33_Witness ==
    /\ pc = "done"
    /\ NoChunkFailed
    /\ Len(raw_events) = 1
    /\ ~raw_events[1].valid
    /\ Cardinality(DOMAIN table0) = 3
    /\ table = <<>>
    /\ response.statusCode = 200
    /\ response.statistics.events_deleted = 3

\* C34: sync_events never raises: once it is over there is a SyncResult,
\* and when a scan, put or delete raised out of its function that result
\* is 0, 0, 0 with exactly one error message.
C34_SyncEventsAlwaysReturns ==
    /\ pc \in {"respond", "done"} /\ ~FetchFailed =>
          /\ sync_result /= NoResult
          /\ sync_result.added >= 0 /\ sync_result.updated >= 0
          /\ sync_result.deleted >= 0
    /\ (pc \in {"respond", "done"} /\ SyncFailed) =>
          /\ sync_result.added = 0
          /\ sync_result.updated = 0
          /\ sync_result.deleted = 0
          /\ Len(sync_result.errors) = 1
          /\ sync_result.errors[1][1] = "Error during sync operation"
    /\ (pc \in {"respond", "done"} /\ ~FetchFailed /\ ~SyncFailed) =>
          sync_result.errors = <<>>
    /\ SyncFailed => pc \in {"respond", "done"}

\* A cycle whose first write chunk was committed and whose second raised an
\* error that is no ClientError: sync_events returned 0, 0, 0 and one
\* message.
C34_Witness ==
    /\ pc = "respond"
    /\ Len(CallsOf("put")) = 2
    /\ CallsOf("put")[1].outcome = "ok"
    /\ CallsOf("put")[2].outcome = "error"
    /\ sync_result.added = 0 /\ sync_result.updated = 0
    /\ Len(sync_result.errors) = 1

\* C35: lambda_handler always answers, with statusCode 200 or 500; it
\* answers 200 only when fetch_events returned and sync_events returned a
\* SyncResult, and 500 when the fetch raised.
C35_HandlerAnswers200Or500 ==
    pc = "done" =>
        /\ response.statusCode \in {200, 500}
        /\ response.statusCode = 200 =>
              /\ LogHas("fetch", {"ok"})
              /\ ~FetchFailed
              /\ LogHas("process", {"ok"})
              /\ sync_result /= NoResult
              /\ response.errors = sync_result.errors
        /\ FetchFailed =>
              /\ response.statusCode = 500
              /\ sync_result = NoResult

\* A cycle answered 200 although a write chunk raised inside sync_events,
\* which returned its error result.
C35_Witness ==
    /\ pc = "done"
    /\ response.statusCode = 200
    /\ LogHas("put", {"error"})
    /\ response.errors /= <<>>

\* C36: an identity that occurs several times in the fresh list is planned
\* once, with its last record: the write list holds no identity twice, no
\* identity is put twice, what is written is the last record, and added +
\* updated is at most the number of distinct fresh identities.
C36_DuplicateIdentityPlannedOnce ==
    /\ PlanDone =>
          /\ \A a, b \in 1..Len(WriteList) :
                WriteList[a].event_id = WriteList[b].event_id => a = b
          /\ \A a \in 1..Len(WriteList) :
                WriteList[a] = LastFresh(WriteList[a].event_id)
          /\ Len(WriteList) <= Cardinality(FreshIds)
    /\ \A a, b \in BatchCalls("put") :
          a /= b => Range(log[a].ids) \cap Range(log[b].ids) = {}
    /\ \A a \in BatchCalls("put") : \A m, n \in 1..Len(log[a].ids) :
          log[a].ids[m] = log[a].ids[n] => m = n
    /\ pc \in {"respond", "done"} /\ ~FetchFailed =>
          sync_result.added + sync_result.updated <= Cardinality(FreshIds)

\* A finished cycle whose fresh list held the same identity twice with
\* different descriptions, beside another record: the identity was put
\* once, with its last record.
C36_Witness ==
    /\ pc = "done"
    /\ NoChunkFailed
    /\ Len(processed_events) = 3
    /\ Cardinality(FreshIds) = 2
    /\ \E a, b \in 1..3 :
          /\ a < b
          /\ processed_events[a].event_id = processed_events[b].event_id
          /\ processed_events[a] /= processed_events[b]
          /\ table[processed_events[b].event_id] =
                ProcessedEventToItem(processed_events[b])
    /\ sync_result.added + sync_result.updated = 2

\* C38: the write chunks go in the order of the list, the records of the
\* insert list before those of the update list, and a delete chunk is only
\* sent when every write chunk has been: no put follows a delete, and at
\* every delete all the chunks of the write list are in the log.
C38_WritesBeforeDeletes ==
    Planned =>
        /\ log[Len(log)].op = "put" =>
              LET put_ids == Concatenated(CallsOf("put"), Len(CallsOf("put")))
              IN  /\ put_ids =
                         SubSeq(IdsOf(events_to_add) \o IdsOf(events_to_update),
                                1, Len(put_ids))
                  /\ \A a \in 1..Len(put_ids) :
                        /\ a <= Len(events_to_add) =>
                              put_ids[a] = events_to_add[a].event_id
                        /\ a > Len(events_to_add) =>
                              put_ids[a] =
                                  events_to_update[a - Len(events_to_add)].event_id
        /\ \A d \in BatchCalls("delete") :
              /\ \A p \in BatchCalls("put") : p < d
              /\ Cardinality(BatchCalls("put")) = NumChunks(WriteList)
        /\ pc = "delete" => Cardinality(BatchCalls("put")) = NumChunks(WriteList)
        /\ pc = "write" => BatchCalls("delete") = {}

\* A finished cycle with two write chunks, inserts and updates among them,
\* followed by a delete chunk.
C38_Witness ==
    /\ pc = "done"
    /\ Len(CallsOf("put")) = 2
    /\ Len(CallsOf("delete")) = 1
    /\ events_to_add /= <<>>
    /\ events_to_update /= <<>>
    /\ log[Len(log)].op = "delete"

(***************************************************************************)
(* Termination of a cycle.  The three loops of a cycle are taken together: *)
(* the retry loop of _fetch_calendar_html, the pagination loop of          *)
(* get_all_events and the chunk loops of batch_write_events and            *)
(* batch_delete_events inside lambda_handler.  The Lambda runs one         *)
(* invocation in one thread from the call to the return, so a step that    *)
(* can be taken is taken: every request, scan, put or delete returns or    *)
(* raises, which is weak fairness of the next-state action.  The scan      *)
(* reaches a page without LastEvaluatedKey because scan_pages is a finite  *)
(* list.                                                                   *)
(***************************************************************************)
InitCycle == Init \/ InitFetch \/ InitLoad

NextCycle == Next \/ NextFetch \/ NextLoad

SpecLive == InitCycle /\ [][NextCycle]_vars /\ WF_vars(NextCycle)

\* The cycle has ended with an outcome: the handler's response, the page
\* or the exception of the fetch, the plan or the error result of the load.
Terminated ==
    \/ pc = "done" /\ response /= NoResponse
    \/ fetch_pc = "done" /\ fetch_outcome /= <<>>
    \/ load_pc = "planned" /\ plan /= <<>>
    \/ load_pc = "failed" /\ load_result /= <<>>

\* No loop makes more turns than its list, its pages or max_retries allow.
LoopsBounded ==
    /\ Len(http_log) <= max_retries
    /\ attempt < max_retries
    /\ Len(scan_log) <= Len(scan_pages)
    /\ Cardinality(BatchCalls("put")) <= NumChunks(WriteList)
    /\ Cardinality(BatchCalls("delete")) <= NumChunks(event_ids_to_delete)
    /\ pc = "write" => i < Len(WriteList)
    /\ pc = "delete" => i < Len(event_ids_to_delete)

\* C37: every cycle eventually terminates with an outcome, given that each
\* store call and each request returns or raises and that the scan reaches
\* a page without continuation key: the pagination loop, the chunk loops
\* over the write and delete lists and the fetch retry loop make a bounded
\* number of turns and the cycle reaches its outcome.
C37_EveryCycleTerminates == []LoopsBounded /\ <>Terminated

\* A cycle that ended after three turns of the write loop, one of them
\* with a failed chunk, and a turn of the delete loop.
C37_Witness ==
    /\ Terminated
    /\ pc = "done"
    /\ Cardinality(BatchCalls("put")) = 3
    /\ FailedCalls("put") /= {}
    /\ Cardinality(BatchCalls("delete")) = 1
    /\ response.statusCode = 200

=============================================================================
